---- MODULE Spec2Model ----
(***************************************************************************)
(* A model of dataembedder.DataEmbedder (src/src/dataembedder/             *)
(* dataembedder.py): one engine object, the three Zinc files it reads, and *)
(* the public operations called on it in any order.                        *)
(*                                                                         *)
(* Python None is modelled per type: NoName (a field name, a sequence of   *)
(* words), NoGroupName (a group name), NoField, NoGroup, NoMap, NoRegion.  *)
(* A field name is the sequence of its space-separated words, so that the  *)
(* prefixing of _findCoordinatesField ("fitted" + " " + name) and its test *)
(* name.find(prefix) == 0 are computed, not looked up.                     *)
(* A Zinc handle is [region, name], region being "host" or "data": the     *)
(* current host region or its child "data".  load() replaces both regions  *)
(* and finds every handle the engine keeps again, so the only object of a  *)
(* replaced host region the engine still refers to is a generated output   *)
(* region: its parent is then "stale" instead of "host".                   *)
(***************************************************************************)
EXTENDS Integers, Sequences, FiniteSets, TLC

NoName == << >>
NoGroupName == ""
NoField == [region |-> "none", name |-> NoName]
NoGroup == [region |-> "none", name |-> NoGroupName]
NoMesh == [group |-> NoGroupName, boundary |-> FALSE]
NoMap == [fitted |-> NoField, material |-> NoField, mode |-> "none",
          searchMesh |-> NoMesh, boundaryMesh |-> NoMesh]
NoRegion == [exists |-> FALSE, parent |-> "none", complete |-> FALSE,
             elements |-> {}, nodes |-> {}, datapoints |-> {}, groups |-> {},
             materialName |-> NoName, materialDefined |-> {}, overwritten |-> {},
             resolved |-> << >>, assignedFrom |-> << >>, map |-> NoMap]

(***************************************************************************)
(* The input files.  A field is [name, kind, ncomp, coord, definedOn]; a   *)
(* group of a data file is [name, elements, nodes, datapoints]; a group of *)
(* a host file is [name, size], size being its number of elements of the   *)
(* host mesh.  Sequences are in the order Zinc's iterators return.         *)
(***************************************************************************)
FE(name, on) == [name |-> name, kind |-> "fe", ncomp |-> 3, coord |-> TRUE, definedOn |-> on]
StoredString(name, on) == [name |-> name, kind |-> "string", ncomp |-> 1, coord |-> FALSE, definedOn |-> on]
\* a finite element field that is not coordinate-typed
Real(name, on) == [name |-> name, kind |-> "fe", ncomp |-> 3, coord |-> FALSE, definedOn |-> on]

\* Three file sets an embedder can be constructed over.
Scenarios == {"volume", "surface", "fiducial"}
\* Two more, of files without a coordinate-typed field: "plain host" has none
\* in the fitted geometry and scaffold files (its data file is that of
\* "fiducial"), "plain data" has none in the data file.
PlainScenarios == {"plain host", "plain data"}
\* One whose data file has two coordinate fields: "coordinates", and "marker
\* coordinates", which the first marker point has instead of "coordinates".
\* A node has both, and the second marker point has "coordinates" only.
TwoFieldScenarios == {"two fields"}

\* the fitted geometry file: its coordinate field is found and renamed with
\* the prefix "fitted" by load()
FittedGeometryFile(scn) ==
    [dimension |-> IF scn = "surface" THEN 2 ELSE 3,
     meshSize |-> 2,
     fields |-> IF scn = "plain host" THEN << Real(<<"coordinates">>, {}) >>
                ELSE << FE(<<"coordinates">>, {}) >>,
     groups |-> << [name |-> "body", size |-> 2] >>]

\* the scaffold file: material coordinates "body coordinates"
ScaffoldFile(scn) ==
    [fields |-> IF scn = "plain host" THEN << Real(<<"body", "coordinates">>, {}) >>
                ELSE << FE(<<"body", "coordinates">>, {}) >>,
     groups |-> << [name |-> "body", size |-> 2], [name |-> "bottom", size |-> 0],
                   [name |-> "top", size |-> 0] >>]

\* the data file
DataFile(scn) ==
    CASE scn = "volume" ->
        [elementDimension |-> ("c1" :> 3) @@ ("s1" :> 2) @@ ("l1" :> 1),
         nodes |-> {"n1", "n2"},
         datapoints |-> <<"p1", "p2", "p3">>,
         located |-> ("fitted" :> {"n1", "p1", "p3"}) @@ ("body" :> {"n1", "p1", "p3"})
                     @@ ("bottom" :> {}) @@ ("top" :> {}),
         fields |-> << FE(<<"coordinates">>, {"n1", "n2", "p1", "p2", "p3"}),
                       StoredString(<<"marker_name">>, {"p1", "p2", "p3"}) >>,
         markerName |-> ("p1" :> "ICN") @@ ("p2" :> "ICN") @@ ("p3" :> "cube"),
         groups |-> << [name |-> "cube", elements |-> {"c1", "s1"}, nodes |-> {"n1"}, datapoints |-> {}],
                       [name |-> "marker", elements |-> {}, nodes |-> {}, datapoints |-> {"p1", "p2", "p3"}] >>]
      [] scn = "surface" ->
        [elementDimension |-> ("l1" :> 1) @@ ("l2" :> 1),
         nodes |-> {"n1", "n2", "n3"},
         datapoints |-> <<"p1">>,
         located |-> ("fitted" :> {"n1", "n3", "p1"}) @@ ("body" :> {"n1", "n3", "p1"})
                     @@ ("bottom" :> {}) @@ ("top" :> {}),
         fields |-> << FE(<<"coordinates">>, {"n1", "n2", "n3", "p1"}),
                       StoredString(<<"fitted", "coordinates">>, {"p1"}) >>,
         markerName |-> << >>,
         groups |-> << [name |-> "line", elements |-> {"l1", "l2"}, nodes |-> {"n1", "n2"}, datapoints |-> {}],
                       [name |-> "bottom", elements |-> {"l2"}, nodes |-> {"n2"}, datapoints |-> {"p1"}],
                       [name |-> "spare", elements |-> {}, nodes |-> {"n3"}, datapoints |-> {}] >>]
      [] scn = "two fields" ->
        [elementDimension |-> << >>,
         nodes |-> {"n1"},
         datapoints |-> <<"p1", "p2">>,
         located |-> ("fitted" :> {"n1", "p1", "p2"}) @@ ("body" :> {"n1", "p1", "p2"})
                     @@ ("bottom" :> {}) @@ ("top" :> {}),
         fields |-> << FE(<<"coordinates">>, {"n1", "p2"}),
                       FE(<<"marker", "coordinates">>, {"n1", "p1"}),
                       StoredString(<<"marker_name">>, {"p1", "p2"}) >>,
         markerName |-> ("p1" :> "apex") @@ ("p2" :> "apex"),
         groups |-> << [name |-> "landmark", elements |-> {}, nodes |-> {"n1"}, datapoints |-> {}],
                       [name |-> "marker", elements |-> {}, nodes |-> {}, datapoints |-> {"p1", "p2"}] >>]
      [] scn = "plain data" ->
        [elementDimension |-> << >>,
         nodes |-> {"n1"},
         datapoints |-> <<"p1">>,
         located |-> ("fitted" :> {"n1", "p1"}) @@ ("body" :> {"n1", "p1"})
                     @@ ("bottom" :> {}) @@ ("top" :> {}),
         fields |-> << Real(<<"pressure">>, {"n1", "p1"}),
                       StoredString(<<"marker_name">>, {"p1"}) >>,
         markerName |-> ("p1" :> "top"),
         groups |-> << [name |-> "marker", elements |-> {}, nodes |-> {}, datapoints |-> {"p1"}] >>]
      [] OTHER ->
        [elementDimension |-> << >>,
         nodes |-> {"n1"},
         datapoints |-> <<"p1", "p2">>,
         located |-> ("fitted" :> {"n1", "p1"}) @@ ("body" :> {"n1", "p1"})
                     @@ ("bottom" :> {}) @@ ("top" :> {}),
         fields |-> << FE(<<"coordinates">>, {"n1", "p1", "p2"}),
                       FE(<<"body", "coordinates">>, {"n1", "p1"}),
                       StoredString(<<"marker_name">>, {"p1"}) >>,
         markerName |-> ("p1" :> "top"),
         groups |-> << [name |-> "fiducial", elements |-> {}, nodes |-> {}, datapoints |-> {"p1", "p2"}],
                       [name |-> "void", elements |-> {}, nodes |-> {}, datapoints |-> {}] >>]

\* Settings handed to decodeSettingsJSON(): the five keys it reads, written
\* for another file set, so that some names are found in the files and some
\* are not, and the dimensions and sizes are not those of the data.
SettingsInputs ==
    { [fittedCoordinatesField |-> <<"fitted", "coordinates">>,
       materialCoordinatesField |-> <<"fitted", "coordinates">>,
       dataCoordinatesField |-> NoName, dataMarkerGroup |-> "fiducial",
       diagnosticLevel |-> 0,
       groupData |-> ("cube" :> [embed |-> FALSE, dimension |-> 1, size |-> 5])
                  @@ ("line" :> [embed |-> FALSE, dimension |-> 3, size |-> 9])] }

VARIABLES
    files,                        \* the file set the embedder was constructed over
    hostRegion,                   \* _hostRegion: "none" (None) or "host"
    hostFields,                   \* the fields of the host region, in iteration order
    hostGroups,                   \* the groups of the host region, in iteration order
    outputDataRegion,             \* _outputDataRegion and what it holds
    fittedCoordinatesField, fittedCoordinatesFieldName,
    materialCoordinatesField, materialCoordinatesFieldName,
    dataCoordinatesField, dataCoordinatesFieldName,
    dataMarkerGroup, dataMarkerGroupName,
    dataMarkerCoordinatesField, dataMarkerNameField,
    hostFindMaterialCoordinatesField,   \* the embedding map built by _buildEmbeddedMapFields
    diagnosticLevel,              \* _diagnosticLevel
    hostProjectionGroup, hostProjectionGroupName,   \* the projection group setting
    hostMarkerGroup, hostMarkerGroupName,   \* _hostMarkerGroup, _hostMarkerGroupName
    needGenerateOutput,
    groupData,                    \* _groupData: name -> [embed, dimension, size]
    lastCall                      \* the last call made: see Call

vars == << files, hostRegion, hostFields, hostGroups, outputDataRegion,
           fittedCoordinatesField, fittedCoordinatesFieldName,
           materialCoordinatesField, materialCoordinatesFieldName,
           dataCoordinatesField, dataCoordinatesFieldName,
           dataMarkerGroup, dataMarkerGroupName,
           dataMarkerCoordinatesField, dataMarkerNameField,
           hostFindMaterialCoordinatesField, diagnosticLevel,
           hostProjectionGroup, hostProjectionGroupName,
           hostMarkerGroup, hostMarkerGroupName, needGenerateOutput,
           groupData, lastCall >>

(***************************************************************************)
(* Helpers of the Zinc model                                               *)
(***************************************************************************)
\* Python: 0 == name.find(prefix)
StartsWith(name, prefix) ==
    Len(name) >= Len(prefix) /\ SubSeq(name, 1, Len(prefix)) = prefix

\* fieldmodule.findFieldByName(name) among a region's fields: its index or 0
RECURSIVE FieldIndexFrom(_, _, _)
FieldIndexFrom(fields, name, i) ==
    IF i > Len(fields) THEN 0
    ELSE IF fields[i].name = name THEN i
    ELSE FieldIndexFrom(fields, name, i + 1)

FieldIndex(fields, name) == FieldIndexFrom(fields, name, 1)

\* the group of that name among a region's groups: its index or 0
RECURSIVE GroupIndexFrom(_, _, _)
GroupIndexFrom(groups, name, i) ==
    IF i > Len(groups) THEN 0
    ELSE IF groups[i].name = name THEN i
    ELSE GroupIndexFrom(groups, name, i + 1)

GroupIndex(groups, name) == GroupIndexFrom(groups, name, 1)

GroupNames(groups) == { groups[i].name : i \in 1..Len(groups) }

\* region.readFile into a region that already holds fields and groups:
\* objects of a new name are appended, those of a known name are merged
RECURSIVE MergeByName(_, _)
MergeByName(have, read) ==
    IF read = << >> THEN have
    ELSE MergeByName(
            IF \E i \in 1..Len(have) : have[i].name = Head(read).name
            THEN have ELSE Append(have, Head(read)),
            Tail(read))

\* the first datapoint, in nodeset order, that is in set S; "" if none
RECURSIVE FirstIn(_, _)
FirstIn(order, S) ==
    IF order = << >> THEN ""
    ELSE IF Head(order) \in S THEN Head(order)
    ELSE FirstIn(Tail(order), S)

(***************************************************************************)
(* DataEmbedder._findCoordinatesField                                      *)
(***************************************************************************)
\* a scan that falls back to the last coordinate field met, not the first:
\* the fault C21 rules out
RECURSIVE FindLastCoordinatesFieldScan(_, _, _, _, _)
FindLastCoordinatesFieldScan(fields, i, fieldName, namePrefix, found) ==
    IF i > Len(fields) THEN found
    ELSE IF fields[i].kind = "fe" /\ fields[i].ncomp <= 3 /\ fields[i].coord
    THEN IF fieldName = NoName THEN i
         ELSE LET thisFieldName ==
                      IF namePrefix # NoName /\ ~StartsWith(fields[i].name, namePrefix)
                      THEN namePrefix \o fields[i].name
                      ELSE fields[i].name
              IN  IF thisFieldName = fieldName THEN i
                  ELSE FindLastCoordinatesFieldScan(fields, i + 1, fieldName, namePrefix, i)
    ELSE FindLastCoordinatesFieldScan(fields, i + 1, fieldName, namePrefix, found)

\* the scan of the field iterator: the index of the field chosen, or 0.
\* found is the first coordinate field met so far (0: none yet).
RECURSIVE FindCoordinatesFieldScan(_, _, _, _, _)
FindCoordinatesFieldScan(fields, i, fieldName, namePrefix, found) ==
    IF i > Len(fields) THEN found
    ELSE IF fields[i].kind = "fe" /\ fields[i].ncomp <= 3 /\ fields[i].coord
    THEN IF fieldName = NoName THEN i
         ELSE LET thisFieldName ==
                      IF namePrefix # NoName /\ ~StartsWith(fields[i].name, namePrefix)
                      THEN namePrefix \o fields[i].name
                      ELSE fields[i].name
              IN  IF thisFieldName = fieldName THEN i
                  ELSE FindCoordinatesFieldScan(fields, i + 1, fieldName, namePrefix,
                                                IF found = 0 THEN i ELSE found)
    ELSE FindCoordinatesFieldScan(fields, i + 1, fieldName, namePrefix, found)

\* [index, name, fields, printed]: the field chosen (index 0: None), its name
\* after the prefix was added to it, the region's fields after that renaming,
\* and whether "Did not find coordinates field of name" was printed
FindCoordinatesField(fields, fieldName, namePrefix) ==
    LET i == FindCoordinatesFieldScan(fields, 1, fieldName, namePrefix, 0)
        coordinatesFieldName ==
            IF i = 0 THEN NoName
            ELSE IF namePrefix # NoName /\ ~StartsWith(fields[i].name, namePrefix)
            THEN namePrefix \o fields[i].name
            ELSE fields[i].name
    IN  [index |-> i, name |-> coordinatesFieldName,
         fields |-> IF i = 0 THEN fields ELSE [fields EXCEPT ![i].name = coordinatesFieldName],
         printed |-> fieldName # NoName /\ (i = 0 \/ coordinatesFieldName # fieldName)]

(***************************************************************************)
(* DataEmbedder._guessMaterialCoordinatesFieldName                         *)
(***************************************************************************)
\* the scan of get_group_list: [name, size] of the largest group so far
RECURSIVE LargestGroupScan(_, _, _)
LargestGroupScan(groups, i, largest) ==
    IF i > Len(groups) THEN largest
    ELSE LargestGroupScan(groups, i + 1,
            IF groups[i].size > largest.size
            THEN [name |-> groups[i].name, size |-> groups[i].size]
            ELSE largest)

GuessMaterialCoordinatesFieldName(groups, fields) ==
    LET largest == LargestGroupScan(groups, 1, [name |-> NoGroupName, size |-> 0])
        fieldName == << largest.name, "coordinates" >>
    IN  IF largest.name # NoGroupName /\ FieldIndex(fields, fieldName) # 0
        THEN fieldName
        ELSE NoName

(***************************************************************************)
(* DataEmbedder._buildEmbeddedMapFields                                    *)
(***************************************************************************)
\* a map that searches the nearest location of the fitted mesh group at
\* every host dimension: the fault C14 rules out
NearestSearchMode(hostDimension) == "nearest"

\* "if self._hostMesh.getDimension() == 3": the exact search with the
\* boundary fallback, else the nearest search
SearchMode(hostDimension) ==
    IF hostDimension = 3 THEN "exact else boundary nearest" ELSE "nearest"

\* a search mesh: the elements of the host mesh in a group of the host, or
\* the exterior faces of those elements
MeshGroup(group) == [group |-> group, boundary |-> FALSE]
BoundaryMeshGroup(group) == [group |-> group, boundary |-> TRUE]

\* the map over search mesh searchMesh and, for a host of dimension 3, its
\* boundary boundaryMesh
EmbeddedMapFields(s, hostDimension, searchMesh, boundaryMesh) ==
    [fitted |-> s.fittedCoordinatesField,
     material |-> s.materialCoordinatesField,
     mode |-> SearchMode(hostDimension),
     searchMesh |-> searchMesh,
     boundaryMesh |-> IF hostDimension = 3 THEN boundaryMesh ELSE NoMesh]

\* the search mesh is _fittedMeshGroup, the boundary _fittedBoundaryMeshGroup
BuildEmbeddedMapFields(s, hostDimension) ==
    IF s.fittedCoordinatesField # NoField /\ s.materialCoordinatesField # NoField
    THEN [s EXCEPT !.hostFindMaterialCoordinatesField =
             EmbeddedMapFields(s, hostDimension, MeshGroup("fitted"),
                               BoundaryMeshGroup("fitted"))]
    ELSE [s EXCEPT !.hostFindMaterialCoordinatesField = NoMap]

\* FieldFindMeshLocation in SEARCH_MODE_EXACT over a search mesh: defined
\* where the point is inside the domain of the elements of that mesh
FoundMeshLocation(data, node, mesh) ==
    mesh.group \in DOMAIN data.located /\ node \in data.located[mesh.group]

\* a map that searches the fitted mesh group whatever its search meshes are:
\* the fault C15 rules out
FindInFittedMesh(map, data, node) ==
    IF map.mode = "exact else boundary nearest"
    THEN IF FoundMeshLocation(data, node, MeshGroup("fitted"))
         THEN [searchMesh |-> MeshGroup("fitted"), searchMode |-> "exact"]
         ELSE [searchMesh |-> BoundaryMeshGroup("fitted"), searchMode |-> "nearest"]
    ELSE [searchMesh |-> MeshGroup("fitted"), searchMode |-> "nearest"]

\* Evaluating the embedding map at a point of the data: the mesh whose
\* search gave the location the material coordinates are taken at, and the
\* mode of that search.  createFieldIf(hasFoundMeshLocation, exact, boundary)
\* for a host of dimension 3.
FindMaterialCoordinates(map, data, node) ==
    IF map.mode = "exact else boundary nearest"
    THEN IF FoundMeshLocation(data, node, map.searchMesh)
         THEN [searchMesh |-> map.searchMesh, searchMode |-> "exact"]
         ELSE [searchMesh |-> map.boundaryMesh, searchMode |-> "nearest"]
    ELSE [searchMesh |-> map.searchMesh, searchMode |-> "nearest"]

(***************************************************************************)
(* DataEmbedder.setDataMarkerGroup                                         *)
(***************************************************************************)
\* the scan of the data region's fields at the group's first datapoint:
\* [coordinates, name], the marker coordinates and marker name fields
RECURSIVE MarkerFieldsScan(_, _, _, _, _)
MarkerFieldsScan(fields, i, node, region, got) ==
    IF i > Len(fields) THEN got
    ELSE MarkerFieldsScan(fields, i + 1, node, region,
            IF node \in fields[i].definedOn
            THEN IF got.coordinates = NoField /\ fields[i].kind = "fe"
                 THEN [got EXCEPT !.coordinates = [region |-> region, name |-> fields[i].name]]
                 ELSE IF got.name = NoField /\ fields[i].kind = "string"
                 THEN [got EXCEPT !.name = [region |-> region, name |-> fields[i].name]]
                 ELSE got
            ELSE got)

\* the data file's group a handle of the data region stands for
DataGroupOf(data, group) == data.groups[GroupIndex(data.groups, group.name)]

\* a setDataMarkerGroup() that drops the records of marker names from the
\* group table: the fault C29 rules out
SetDataMarkerGroupForgetting(s, data, group) ==
    LET cleared == [s EXCEPT !.dataMarkerGroup = NoGroup,
                             !.dataMarkerGroupName = NoGroupName,
                             !.dataMarkerCoordinatesField = NoField,
                             !.dataMarkerNameField = NoField,
                             !.groupData = [n \in DOMAIN s.groupData \cap GroupNames(data.groups) |->
                                               s.groupData[n]]]
    IN  IF group = NoGroup THEN cleared
        ELSE LET node == FirstIn(data.datapoints, DataGroupOf(data, group).datapoints)
                 dataFieldIndex == FieldIndex(data.fields, s.dataCoordinatesField.name)
                 start == [coordinates |->
                               IF /\ s.dataCoordinatesField # NoField
                                  /\ dataFieldIndex # 0
                                  /\ node \in data.fields[dataFieldIndex].definedOn
                               THEN s.dataCoordinatesField ELSE NoField,
                           name |-> NoField]
                 got == IF node = "" THEN [coordinates |-> NoField, name |-> NoField]
                        ELSE MarkerFieldsScan(data.fields, 1, node, group.region, start)
             IN  [cleared EXCEPT !.dataMarkerGroup = group,
                                 !.dataMarkerGroupName = group.name,
                                 !.needGenerateOutput = TRUE,
                                 !.dataMarkerCoordinatesField = got.coordinates,
                                 !.dataMarkerNameField = got.name]

\* the state after setDataMarkerGroup(group) once its first test (same group:
\* return False) has failed
SetDataMarkerGroupChanged(s, data, group) ==
    LET cleared == [s EXCEPT !.dataMarkerGroup = NoGroup,
                             !.dataMarkerGroupName = NoGroupName,
                             !.dataMarkerCoordinatesField = NoField,
                             !.dataMarkerNameField = NoField]
    IN  IF group = NoGroup THEN cleared
        ELSE LET node == FirstIn(data.datapoints, DataGroupOf(data, group).datapoints)
                 dataFieldIndex == FieldIndex(data.fields, s.dataCoordinatesField.name)
                 start == [coordinates |->
                               IF /\ s.dataCoordinatesField # NoField
                                  /\ dataFieldIndex # 0
                                  /\ node \in data.fields[dataFieldIndex].definedOn
                               THEN s.dataCoordinatesField ELSE NoField,
                           name |-> NoField]
                 got == IF node = "" THEN [coordinates |-> NoField, name |-> NoField]
                        ELSE MarkerFieldsScan(data.fields, 1, node, group.region, start)
             IN  [cleared EXCEPT !.dataMarkerGroup = group,
                                 !.dataMarkerGroupName = group.name,
                                 !.needGenerateOutput = TRUE,
                                 !.dataMarkerCoordinatesField = got.coordinates,
                                 !.dataMarkerNameField = got.name]

\* [self, changed]: the state after setDataMarkerGroup(group), and its return value
SetDataMarkerGroup(s, data, group) ==
    IF group = s.dataMarkerGroup
    THEN [self |-> s, changed |-> FALSE]
    ELSE [self |-> SetDataMarkerGroupChanged(s, data, group), changed |-> TRUE]

\* setHostMarkerGroup(group): [self, changed].  The marker location and name
\* fields it looks up are for visualisation and are not kept here.
SetHostMarkerGroup(s, group) ==
    IF group = s.hostMarkerGroup THEN [self |-> s, changed |-> FALSE]
    ELSE [self |-> [s EXCEPT !.hostMarkerGroup = group,
                             !.hostMarkerGroupName =
                                 IF group = NoGroup THEN NoGroupName ELSE group.name],
          changed |-> TRUE]

\* DataEmbedder._discoverHostMarkerGroup
DiscoverHostMarkerGroup(s) ==
    LET name == IF s.hostMarkerGroupName # NoGroupName THEN s.hostMarkerGroupName ELSE "marker"
        found == IF GroupIndex(s.hostGroups, name) # 0
                 THEN [region |-> "host", name |-> name] ELSE NoGroup
    IN  SetHostMarkerGroup([s EXCEPT !.hostMarkerGroup = NoGroup], found).self

\* DataEmbedder._discoverDataMarkerGroup
DiscoverDataMarkerGroup(s, data) ==
    LET name == IF s.dataMarkerGroupName # NoGroupName THEN s.dataMarkerGroupName ELSE "marker"
        found == IF GroupIndex(data.groups, name) # 0
                 THEN [region |-> "data", name |-> name] ELSE NoGroup
        reset == [s EXCEPT !.dataMarkerGroup = NoGroup,
                           !.dataMarkerNameField = NoField,
                           !.dataMarkerCoordinatesField = NoField]
    IN  SetDataMarkerGroup(reset, data, found).self

(***************************************************************************)
(* DataEmbedder.isDataGroupEmbed, DataEmbedder._buildDataGroups            *)
(***************************************************************************)
\* isDataGroupEmbed(groupName) on group table gd
IsDataGroupEmbed(gd, groupName) ==
    IF groupName \in DOMAIN gd THEN gd[groupName].embed ELSE FALSE

\* the highest dimension at which the data region's mesh holds an element
MaxDimension(data) ==
    IF \E e \in DOMAIN data.elementDimension : data.elementDimension[e] = 3 THEN 3
    ELSE IF \E e \in DOMAIN data.elementDimension : data.elementDimension[e] = 2 THEN 2
    ELSE IF \E e \in DOMAIN data.elementDimension : data.elementDimension[e] = 1 THEN 1
    ELSE 0

\* the group's mesh group at one dimension
ElementsOfDimension(data, group, dimension) ==
    { e \in group.elements : data.elementDimension[e] = dimension }

\* a loop that runs upwards and stops at the lowest occupied dimension: the
\* fault C10 rules out
GroupDimensionLowest(data, group, dimension) ==
    LET occupied == { d \in 1..dimension :
                        Cardinality(ElementsOfDimension(data, group, d)) > 0 }
    IN  IF occupied = {} THEN [dimension |-> 0, size |-> 0]
        ELSE LET d == CHOOSE x \in occupied : \A y \in occupied : x <= y
             IN  [dimension |-> d,
                  size |-> Cardinality(ElementsOfDimension(data, group, d))]

\* the loop over range(maxDimension, 0, -1): [dimension, size] of the group
RECURSIVE GroupDimensionScan(_, _, _)
GroupDimensionScan(data, group, dimension) ==
    IF dimension = 0 THEN [dimension |-> 0, size |-> 0]
    ELSE IF Cardinality(ElementsOfDimension(data, group, dimension)) > 0
    THEN [dimension |-> dimension,
          size |-> Cardinality(ElementsOfDimension(data, group, dimension))]
    ELSE GroupDimensionScan(data, group, dimension - 1)

\* groupDimension and groupSize of a group of the data region
GroupDimensionSize(data, group) ==
    LET scan == GroupDimensionScan(data, group, MaxDimension(data))
    IN  IF scan.size = 0
        THEN [dimension |-> scan.dimension, size |-> Cardinality(group.datapoints)]
        ELSE scan

\* a default that forgets the size test: the fault C5 rules out
DefaultGroupEmbedIgnoringSize(groupIsInHost, groupSize, isDataMarkerGroup) ==
    ~(groupIsInHost \/ isDataMarkerGroup)

\* the default embed flag of a group of the data region
DefaultGroupEmbed(groupIsInHost, groupSize, isDataMarkerGroup) ==
    ~(groupIsInHost \/ groupSize = 0 \/ isDataMarkerGroup)

\* the default embed flag of a group made of the marker points of one name
\* a default that ignores the host's groups: the fault C12 rules out
DefaultMarkerEmbedIgnoringHost(groupIsInHost, markerName, markerGroupName) ==
    ~(markerName = markerGroupName)

DefaultMarkerEmbed(groupIsInHost, markerName, markerGroupName) ==
    ~(groupIsInHost \/ markerName = markerGroupName)

\* a table that leaves out the groups of size 0: the fault C11 rules out
RegularGroupDataOccupied(s, data) ==
    [groupName \in { n \in GroupNames(data.groups) :
                        GroupDimensionSize(data, data.groups[GroupIndex(data.groups, n)]).size > 0 } |->
        LET group == data.groups[GroupIndex(data.groups, groupName)]
            ds == GroupDimensionSize(data, group)
        IN  [embed |-> DefaultGroupEmbed(groupName \in GroupNames(s.hostGroups), ds.size,
                                         [region |-> "data", name |-> groupName]
                                             = s.dataMarkerGroup),
             dimension |-> ds.dimension,
             size |-> ds.size]]

\* "process regular groups": the table of the data region's groups
RegularGroupData(s, data) ==
    [groupName \in GroupNames(data.groups) |->
        LET group == data.groups[GroupIndex(data.groups, groupName)]
            ds == GroupDimensionSize(data, group)
        IN  [embed |-> DefaultGroupEmbed(groupName \in GroupNames(s.hostGroups), ds.size,
                                         [region |-> "data", name |-> groupName]
                                             = s.dataMarkerGroup),
             dimension |-> ds.dimension,
             size |-> ds.size]]

\* dataMarkerNameField.evaluateString at a datapoint; "" for None
EvaluateMarkerName(data, nameField, node) ==
    LET i == FieldIndex(data.fields, nameField.name)
    IN  IF i # 0 /\ node \in data.fields[i].definedOn /\ node \in DOMAIN data.markerName
        THEN data.markerName[node] ELSE ""

\* "process data marker points": the loop over the marker group's datapoints
RECURSIVE MarkerGroupDataScan(_, _, _, _, _)
MarkerGroupDataScan(s, data, order, members, markerGroupData) ==
    IF order = << >> THEN markerGroupData
    ELSE LET node == Head(order)
             markerName == EvaluateMarkerName(data, s.dataMarkerNameField, node)
         IN  MarkerGroupDataScan(s, data, Tail(order), members,
                IF node \notin members \/ markerName = "" THEN markerGroupData
                ELSE IF markerName \in DOMAIN markerGroupData
                THEN [markerGroupData EXCEPT ![markerName].size = @ + 1]
                ELSE markerGroupData @@
                     (markerName :>
                        [embed |-> DefaultMarkerEmbed(markerName \in GroupNames(s.hostGroups),
                                                      markerName, s.dataMarkerGroupName),
                         dimension |-> 0,
                         size |-> 1]))

\* a classification that drops the prior flags: the fault C6 rules out
TransferNothing(prior, groupName, groupDict) == groupDict

\* "transfer embed flag from existing groupData before replacing"
TransferEmbed(prior, groupName, groupDict) ==
    IF groupName \in DOMAIN prior
    THEN [groupDict EXCEPT !.embed = IsDataGroupEmbed(prior, groupName)]
    ELSE groupDict

\* the records derived from the names of the marker group's datapoints
MarkerGroupData(s, data) ==
    MarkerGroupDataScan(s, data, data.datapoints,
                        DataGroupOf(data, s.dataMarkerGroup).datapoints, << >>)

\* a merge in which the marker names win: the fault C13 rules out
MergeMarkerFirst(regular, markerGroupData) == markerGroupData @@ regular

\* markerGroupData.update(groupData): the regular groups win
MergeGroupData(regular, markerGroupData) == regular @@ markerGroupData

\* a table updated in place, keeping the records of names the data no longer
\* has: the fault C27 rules out
BuildDataGroupsOverPrior(s, data) ==
    LET regular == RegularGroupData(s, data)
        merged ==
            IF s.dataMarkerGroup # NoGroup /\ s.dataMarkerNameField # NoField
            THEN MergeGroupData(regular, MarkerGroupData(s, data))
            ELSE regular
    IN  [s EXCEPT !.groupData =
            [groupName \in DOMAIN merged |->
                TransferEmbed(s.groupData, groupName, merged[groupName])] @@ s.groupData]

\* DataEmbedder._buildDataGroups: the table is built anew and replaces the
\* prior one

BuildDataGroups(s, data) ==
    LET regular == RegularGroupData(s, data)
        merged ==
            IF s.dataMarkerGroup # NoGroup /\ s.dataMarkerNameField # NoField
            THEN MergeGroupData(regular, MarkerGroupData(s, data))
            ELSE regular
    IN  [s EXCEPT !.groupData =
            [groupName \in DOMAIN merged |->
                TransferEmbed(s.groupData, groupName, merged[groupName])]]

(***************************************************************************)
(* DataEmbedder._clearFields, DataEmbedder.load                            *)
(***************************************************************************)
ClearFields(s) ==
    [s EXCEPT !.fittedCoordinatesField = NoField,
              !.materialCoordinatesField = NoField,
              !.hostMarkerGroup = NoGroup,
              !.dataCoordinatesField = NoField,
              !.dataMarkerGroup = NoGroup,
              !.dataMarkerCoordinatesField = NoField,
              !.dataMarkerNameField = NoField,
              !.hostFindMaterialCoordinatesField = NoMap]

\* load() up to the reading of the first file: the fields are cleared and
\* there is a new, empty host region with its child "data"; an output region
\* generated before is no child of it
NewHostRegion(s) ==
    [ClearFields(s) EXCEPT
        !.hostRegion = "host",
        !.hostFields = << >>,
        !.hostGroups = << >>,
        !.outputDataRegion.parent = IF s.outputDataRegion.exists THEN "stale" ELSE @]

\* the three searches of load(), each over the fields its region has then
FittedSearch(s0, scn) ==
    FindCoordinatesField(FittedGeometryFile(scn).fields, s0.fittedCoordinatesFieldName, <<"fitted">>)

\* read the fitted geometry file; find the fitted coordinates; make the
\* groups "fitted" and "fitted boundary"
ReadFittedGeometry(s0, scn) ==
    LET fittedFile == FittedGeometryFile(scn)
        fitted == FittedSearch(s0, scn)
        s1 == IF fitted.index # 0
              THEN [s0 EXCEPT !.fittedCoordinatesField = [region |-> "host", name |-> fitted.name],
                              !.fittedCoordinatesFieldName = fitted.name]
              ELSE s0
        fittedGroups == fittedFile.groups
                        \o << [name |-> "fitted", size |-> fittedFile.meshSize] >>
                        \o (IF fittedFile.dimension > 1
                            THEN << [name |-> "fitted boundary", size |-> 0] >> ELSE << >>)
    IN  [s1 EXCEPT !.hostFields = fitted.fields, !.hostGroups = fittedGroups]

\* the material coordinates name load() searches for: the one set, or the
\* guess when none is
MaterialNameSought(s1, scn) ==
    IF s1.materialCoordinatesFieldName = NoName
    THEN GuessMaterialCoordinatesFieldName(MergeByName(s1.hostGroups, ScaffoldFile(scn).groups),
                                           MergeByName(s1.hostFields, ScaffoldFile(scn).fields))
    ELSE s1.materialCoordinatesFieldName

MaterialSearch(s1, scn) ==
    FindCoordinatesField(MergeByName(s1.hostFields, ScaffoldFile(scn).fields),
                         MaterialNameSought(s1, scn), NoName)

\* read the scaffold file; find the material coordinates; build the map
ReadScaffold(s1, scn) ==
    LET scaffold == ScaffoldFile(scn)
        allFields == MergeByName(s1.hostFields, scaffold.fields)
        allGroups == MergeByName(s1.hostGroups, scaffold.groups)
        guess == MaterialNameSought(s1, scn)
        material == MaterialSearch(s1, scn)
        s2 == [s1 EXCEPT !.hostFields = allFields,
                         !.hostGroups = allGroups,
                         !.materialCoordinatesFieldName =
                             IF material.index # 0 THEN material.name ELSE guess,
                         !.materialCoordinatesField =
                             IF material.index # 0
                             THEN [region |-> "host", name |-> material.name] ELSE NoField]
    IN  BuildEmbeddedMapFields(s2, FittedGeometryFile(scn).dimension)

DataSearch(s3, scn) ==
    FindCoordinatesField(DataFile(scn).fields, s3.dataCoordinatesFieldName, NoName)

\* read the data file; find the data coordinates and the marker groups; build
\* the group table
ReadData(s3, scn) ==
    LET data == DataFile(scn)
        dataCoordinates == DataSearch(s3, scn)
        s4 == IF dataCoordinates.index # 0
              THEN [s3 EXCEPT !.dataCoordinatesField = [region |-> "data", name |-> dataCoordinates.name],
                              !.dataCoordinatesFieldName = dataCoordinates.name]
              ELSE s3
    IN  BuildDataGroups(DiscoverDataMarkerGroup(DiscoverHostMarkerGroup(s4), data), data)

\* the state after load() over file set scn
Load(s, scn) == ReadData(ReadScaffold(ReadFittedGeometry(NewHostRegion(s), scn), scn), scn)

\* the names load() prints "Did not find coordinates field of name" for, in
\* the order of its three searches
NotFoundIn(search, fieldName) == IF search.printed THEN << fieldName >> ELSE << >>

LoadNotFound(s, scn) ==
    LET s0 == NewHostRegion(s)
        s1 == ReadFittedGeometry(s0, scn)
        s3 == ReadScaffold(s1, scn)
    IN  NotFoundIn(FittedSearch(s0, scn), s0.fittedCoordinatesFieldName)
        \o NotFoundIn(MaterialSearch(s1, scn), MaterialNameSought(s1, scn))
        \o NotFoundIn(DataSearch(s3, scn), s3.dataCoordinatesFieldName)

\* The state load() leaves when its assertion on the readFile() of file
\* unreadable ("fitted", "scaffold" or "data") fails: that of the statements
\* before it.  A file that cannot be read defines nothing in its region.
LoadFailure(s, scn, unreadable) ==
    CASE unreadable = "fitted" -> NewHostRegion(s)
      [] unreadable = "scaffold" -> ReadFittedGeometry(NewHostRegion(s), scn)
      [] unreadable = "data" -> ReadScaffold(ReadFittedGeometry(NewHostRegion(s), scn), scn)

(***************************************************************************)
(* The host projection group: getHostProjectionGroup,                      *)
(* setHostProjectionGroup, its key in the settings and its rediscovery by  *)
(* load().  A projection group restricts the search mesh of the embedding  *)
(* map to the elements of that group, and the boundary mesh to their       *)
(* exterior faces; the map is rebuilt when the group changes.              *)
(***************************************************************************)
\* getHostProjectionGroup()
GetHostProjectionGroup(s) == s.hostProjectionGroup

\* the embedding map over the projection group, or over the fitted mesh
\* group if none is set
BuildProjectedMapFields(s, hostDimension) ==
    IF s.hostProjectionGroup = NoGroup THEN BuildEmbeddedMapFields(s, hostDimension)
    ELSE IF s.fittedCoordinatesField # NoField /\ s.materialCoordinatesField # NoField
    THEN [s EXCEPT !.hostFindMaterialCoordinatesField =
             EmbeddedMapFields(s, hostDimension, MeshGroup(s.hostProjectionGroup.name),
                               BoundaryMeshGroup(s.hostProjectionGroup.name))]
    ELSE [s EXCEPT !.hostFindMaterialCoordinatesField = NoMap]

\* setHostProjectionGroup(group): [self, changed]
SetHostProjectionGroup(s, scn, group) ==
    IF group = s.hostProjectionGroup THEN [self |-> s, changed |-> FALSE]
    ELSE [self |-> BuildProjectedMapFields(
                       [s EXCEPT !.hostProjectionGroup = group,
                                 !.hostProjectionGroupName = group.name,
                                 !.needGenerateOutput = TRUE],
                       FittedGeometryFile(scn).dimension),
          changed |-> TRUE]

\* a load() that forgets the projection group: the fault C16 rules out
DiscoverNoHostProjectionGroup(s) == [s EXCEPT !.hostProjectionGroup = NoGroup]

\* load() finds the host group of the name in the settings
DiscoverHostProjectionGroup(s) ==
    [s EXCEPT !.hostProjectionGroup =
        IF /\ s.hostProjectionGroupName # NoGroupName
           /\ GroupIndex(s.hostGroups, s.hostProjectionGroupName) # 0
        THEN [region |-> "host", name |-> s.hostProjectionGroupName]
        ELSE NoGroup]

\* load() with the projection group: found after the scaffold is read, the
\* map built over it
LoadProjection(s, scn) ==
    ReadData(
        BuildProjectedMapFields(
            DiscoverHostProjectionGroup(
                ReadScaffold(ReadFittedGeometry(
                    NewHostRegion([s EXCEPT !.hostProjectionGroup = NoGroup]), scn), scn)),
            FittedGeometryFile(scn).dimension),
        scn)

(***************************************************************************)
(* DataEmbedder.generateOutput                                             *)
(***************************************************************************)
\* a generateOutput() that lost its cache test: the fault C1 rules out
AlwaysAssemble(s) == TRUE

\* "if not self._needGenerateOutput: return self._outputDataRegion"
NeedsAssembly(s) == s.needGenerateOutput

\* the loop over _groupData: what is put into embedGroup, which groups are
\* made of marker points and which are removed.  The output region is a
\* fresh read of the data file.
IsLiteralGroup(data, groupName) == groupName \in GroupNames(data.groups)

\* "if not (outputDataMarkerGroup and outputDataMarkerNameField): continue"
CanMaterialize(s) == s.dataMarkerGroup # NoGroup /\ s.dataMarkerNameField # NoField

\* the datapoints of the output's group named _dataMarkerGroupName
OutputMarkerDatapoints(s, data) ==
    IF GroupIndex(data.groups, s.dataMarkerGroupName) # 0
    THEN data.groups[GroupIndex(data.groups, s.dataMarkerGroupName)].datapoints
    ELSE {}

\* names with embed set that the loop skips: no group of that name in the
\* output, and no marker group or no marker name field to make one from
SkippedGroups(s, data) ==
    { n \in DOMAIN s.groupData :
        s.groupData[n].embed /\ ~IsLiteralGroup(data, n) /\ ~CanMaterialize(s) }

\* a loop that prints at every diagnostic level: the fault C19 rules out
AllMissingMarkerDiagnostics(s, data) == SkippedGroups(s, data)

\* the names of the "Missing data marker group or name fields for group"
\* messages printed to stderr
MissingMarkerDiagnostics(s, data) ==
    IF s.diagnosticLevel > 0 THEN SkippedGroups(s, data) ELSE {}

\* names with embed set whose group exists in the output region
EmbedLiteral(s, data) ==
    { n \in DOMAIN s.groupData : s.groupData[n].embed /\ IsLiteralGroup(data, n) }

\* names with embed set for which a group of marker points is created
EmbedMarker(s, data) ==
    { n \in DOMAIN s.groupData :
        s.groupData[n].embed /\ ~IsLiteralGroup(data, n) /\ CanMaterialize(s) }

\* "remove non-embedding groups from output, except marker group"
RemovedGroups(s, data) ==
    { n \in DOMAIN s.groupData :
        ~s.groupData[n].embed /\ n # s.dataMarkerGroupName /\ IsLiteralGroup(data, n) }

\* elements added by "for dimension in range(groupDimension, 0, -1)"
EmbedElements(s, data) ==
    UNION { { e \in DataGroupOf(data, [name |-> n]).elements :
                data.elementDimension[e] <= s.groupData[n].dimension } :
            n \in EmbedLiteral(s, data) }

EmbedNodes(s, data) ==
    UNION { DataGroupOf(data, [name |-> n]).nodes : n \in EmbedLiteral(s, data) }

EmbedDatapoints(s, data) ==
    UNION { DataGroupOf(data, [name |-> n]).datapoints : n \in EmbedLiteral(s, data) }
    \cup
    UNION { { node \in OutputMarkerDatapoints(s, data) :
                EvaluateMarkerName(data, s.dataMarkerNameField, node) = n } :
            n \in EmbedMarker(s, data) }

\* outputDataCoordinatesFieldNames
OutputDataCoordinatesFieldNames(s) ==
    << s.dataCoordinatesFieldName >>
    \o (IF /\ s.dataMarkerCoordinatesField # NoField
           /\ s.dataMarkerCoordinatesField # s.dataCoordinatesField
        THEN << s.dataMarkerCoordinatesField.name >> ELSE << >>)

\* opencmiss.utils get_unique_field_name
UniqueFieldName(fields, name) ==
    IF FieldIndex(fields, name) = 0 THEN name ELSE name \o << "1" >>

\* outputDataMaterialCoordinatesFieldName
OutputMaterialCoordinatesFieldName(s, data) ==
    IF \E i \in 1..Len(OutputDataCoordinatesFieldNames(s)) :
          OutputDataCoordinatesFieldNames(s)[i] = s.materialCoordinatesFieldName
    THEN UniqueFieldName(data.fields, << "material" >> \o s.materialCoordinatesFieldName)
    ELSE s.materialCoordinatesFieldName

\* the "Warning: Data already has field" message is printed: the material
\* name is one of outputDataCoordinatesFieldNames
CollisionWarning(s) ==
    /\ s.materialCoordinatesFieldName # NoName
    /\ \E i \in 1..Len(OutputDataCoordinatesFieldNames(s)) :
          OutputDataCoordinatesFieldNames(s)[i] = s.materialCoordinatesFieldName

\* The output has a field of the name the material coordinates are written
\* under that the loop over outputDataCoordinatesFieldNames did not look at.
\* The temporary setName() then fails (the name is taken), the buffer written
\* and read back is that field's, and findFieldByName() returns that field.
ExistingMaterialField(s, data) ==
    IF CollisionWarning(s) THEN 0
    ELSE FieldIndex(data.fields, s.materialCoordinatesFieldName)

\* "assert self._outputDataMaterialCoordinatesField.isValid()": the field
\* found is no finite element field
CloneFails(s, data) ==
    /\ ExistingMaterialField(s, data) # 0
    /\ data.fields[ExistingMaterialField(s, data)].kind # "fe"

\* whether defining and assigning the material coordinates fails: a name that
\* is None or names no finite element field of the output, or no embedding map
AssignmentFails(s, data) ==
    \/ s.materialCoordinatesFieldName = NoName
    \/ s.hostFindMaterialCoordinatesField = NoMap
    \/ \E i \in 1..Len(OutputDataCoordinatesFieldNames(s)) :
          LET k == FieldIndex(data.fields, OutputDataCoordinatesFieldNames(s)[i])
          IN  k = 0 \/ data.fields[k].kind # "fe"
    \/ CloneFails(s, data)

\* the fields of the data file whose values the field assignment replaces
OverwrittenFields(s, data) ==
    IF ExistingMaterialField(s, data) # 0 THEN {s.materialCoordinatesFieldName} ELSE {}

\* the points the material coordinates are defined and assigned on: where a
\* data coordinates field is defined and, when the material coordinates field
\* is a field the data file had, where that field is defined
MaterialDefined(s, data) ==
    (EmbedNodes(s, data) \cup EmbedDatapoints(s, data))
    \cap
    UNION { data.fields[FieldIndex(data.fields, OutputDataCoordinatesFieldNames(s)[i])].definedOn :
            i \in 1..Len(OutputDataCoordinatesFieldNames(s)) }
    \cap
    (IF ExistingMaterialField(s, data) # 0
     THEN data.fields[ExistingMaterialField(s, data)].definedOn
     ELSE EmbedNodes(s, data) \cup EmbedDatapoints(s, data))

\* the output region after the filtering, before the material coordinates
FilteredOutput(s, data) ==
    [exists |-> TRUE, parent |-> "host", complete |-> FALSE,
     elements |-> EmbedElements(s, data),
     nodes |-> EmbedNodes(s, data),
     datapoints |-> EmbedDatapoints(s, data),
     groups |-> (GroupNames(data.groups) \ RemovedGroups(s, data)) \cup EmbedMarker(s, data),
     materialName |-> NoName, materialDefined |-> {}, overwritten |-> {},
     resolved |-> << >>, assignedFrom |-> << >>, map |-> NoMap]

\* The data field whose value at the node the map was last applied to.  The
\* assignment loop goes through outputDataCoordinatesFieldNames in order and
\* each pass assigns at every node and datapoint where its field is defined,
\* over what an earlier pass assigned.
AssignedFrom(s, data, node) ==
    LET names == OutputDataCoordinatesFieldNames(s)
        passes == { i \in 1..Len(names) :
                      node \in data.fields[FieldIndex(data.fields, names[i])].definedOn }
    IN  names[CHOOSE i \in passes : \A j \in passes : j <= i]

\* the embedding map applied by the field assignment
AppliedMap(s) == s.hostFindMaterialCoordinatesField

\* a generateOutput() that clears _needGenerateOutput before the material
\* coordinates are defined and assigned, so that it is clear when they
\* fail: the fault C30 rules out
GenerateOutputCleanEarly(s, data) ==
    IF ~NeedsAssembly(s)
    THEN [self |-> s, assembled |-> FALSE, raised |-> FALSE, missing |-> {},
          warned |-> FALSE]
    ELSE IF s.hostRegion = "none"
    THEN [self |-> s, assembled |-> FALSE, raised |-> TRUE, missing |-> {},
          warned |-> FALSE]
    ELSE IF AssignmentFails(s, data)
    THEN [self |-> [s EXCEPT !.outputDataRegion = FilteredOutput(s, data),
                             !.needGenerateOutput = FALSE],
          assembled |-> TRUE, raised |-> TRUE,
          missing |-> MissingMarkerDiagnostics(s, data),
          warned |-> CollisionWarning(s)]
    ELSE [self |-> [s EXCEPT !.outputDataRegion =
                        [FilteredOutput(s, data) EXCEPT
                            !.complete = TRUE,
                            !.materialName = OutputMaterialCoordinatesFieldName(s, data),
                            !.materialDefined = MaterialDefined(s, data),
                            !.overwritten = OverwrittenFields(s, data),
                            !.resolved =
                                [node \in MaterialDefined(s, data) |->
                                    FindMaterialCoordinates(AppliedMap(s), data, node)],
                            !.assignedFrom =
                                [node \in MaterialDefined(s, data) |-> AssignedFrom(s, data, node)],
                            !.map = AppliedMap(s)],
                     !.needGenerateOutput = FALSE],
          assembled |-> TRUE, raised |-> FALSE,
          missing |-> MissingMarkerDiagnostics(s, data),
          warned |-> CollisionWarning(s)]

\* [self, assembled, raised, missing, warned]: the state after
\* generateOutput(), whether it ran the assembly (a new output region was
\* created), whether it raised, the groups it printed a "Missing data marker
\* group" message for and whether it printed the "Data already has field"
\* warning
GenerateOutput(s, data) ==
    IF ~NeedsAssembly(s)
    THEN [self |-> s, assembled |-> FALSE, raised |-> FALSE, missing |-> {},
          warned |-> FALSE]
    ELSE IF s.hostRegion = "none"
    THEN [self |-> s, assembled |-> FALSE, raised |-> TRUE, missing |-> {},
          warned |-> FALSE]
    ELSE IF AssignmentFails(s, data)
    THEN [self |-> [s EXCEPT !.outputDataRegion = FilteredOutput(s, data)],
          assembled |-> TRUE, raised |-> TRUE,
          missing |-> MissingMarkerDiagnostics(s, data),
          warned |-> CollisionWarning(s)]
    ELSE [self |-> [s EXCEPT !.outputDataRegion =
                        [FilteredOutput(s, data) EXCEPT
                            !.complete = TRUE,
                            !.materialName = OutputMaterialCoordinatesFieldName(s, data),
                            !.materialDefined = MaterialDefined(s, data),
                            !.overwritten = OverwrittenFields(s, data),
                            !.resolved =
                                [node \in MaterialDefined(s, data) |->
                                    FindMaterialCoordinates(AppliedMap(s), data, node)],
                            !.assignedFrom =
                                [node \in MaterialDefined(s, data) |-> AssignedFrom(s, data, node)],
                            !.map = AppliedMap(s)],
                     !.needGenerateOutput = FALSE],
          assembled |-> TRUE, raised |-> FALSE,
          missing |-> MissingMarkerDiagnostics(s, data),
          warned |-> CollisionWarning(s)]

(***************************************************************************)
(* The setters                                                             *)
(***************************************************************************)
\* the finite element fields of at most 3 components of a region, as handles
FiniteElementFields(fields, region) ==
    { [region |-> region, name |-> fields[i].name] :
        i \in { k \in 1..Len(fields) : fields[k].kind = "fe" /\ fields[k].ncomp <= 3 } }

\* setFittedCoordinatesField(field): [self, changed]
SetFittedCoordinatesField(s, field) ==
    IF field = s.fittedCoordinatesField THEN [self |-> s, changed |-> FALSE]
    ELSE [self |-> [s EXCEPT !.fittedCoordinatesField = field,
                             !.fittedCoordinatesFieldName = field.name,
                             !.needGenerateOutput = TRUE],
          changed |-> TRUE]

\* setMaterialCoordinatesField(field): [self, changed]
SetMaterialCoordinatesField(s, field) ==
    IF field = s.materialCoordinatesField THEN [self |-> s, changed |-> FALSE]
    ELSE [self |-> [s EXCEPT !.materialCoordinatesField = field,
                             !.materialCoordinatesFieldName = field.name,
                             !.needGenerateOutput = TRUE],
          changed |-> TRUE]

\* setDataCoordinatesField(field): [self, changed]
SetDataCoordinatesField(s, field) ==
    IF field = s.dataCoordinatesField THEN [self |-> s, changed |-> FALSE]
    ELSE [self |-> [s EXCEPT !.dataCoordinatesField = field,
                             !.dataCoordinatesFieldName = field.name,
                             !.needGenerateOutput = TRUE],
          changed |-> TRUE]

\* a setter that marks the output Dirty whenever the name is in the table,
\* also when the flag is the one given: the fault C28 rules out
SetDataGroupEmbedAlwaysDirty(s, groupName, embed) ==
    IF groupName \in DOMAIN s.groupData
    THEN [self |-> [s EXCEPT !.groupData[groupName].embed = embed,
                             !.needGenerateOutput = TRUE],
          changed |-> s.groupData[groupName].embed # embed]
    ELSE [self |-> s, changed |-> FALSE]

\* setDataGroupEmbed(groupName, embed): [self, changed]
SetDataGroupEmbed(s, groupName, embed) ==
    IF groupName \in DOMAIN s.groupData /\ s.groupData[groupName].embed # embed
    THEN [self |-> [s EXCEPT !.groupData[groupName].embed = embed,
                             !.needGenerateOutput = TRUE],
          changed |-> TRUE]
    ELSE [self |-> s, changed |-> FALSE]

\* setDiagnosticLevel(diagnosticLevel)
SetDiagnosticLevel(s, level) == [s EXCEPT !.diagnosticLevel = level]

(***************************************************************************)
(* The queries of the group table.  A record of the table is a non-empty   *)
(* dict, so "if groupDict:" tests that the name is in the table.           *)
(***************************************************************************)
\* getDataGroupNames()
GetDataGroupNames(s) == DOMAIN s.groupData

\* hasDataGroup(groupName)
HasDataGroup(s, groupName) == groupName \in DOMAIN s.groupData

\* getDataGroupDimension(groupName)
GetDataGroupDimension(s, groupName) ==
    IF groupName \in DOMAIN s.groupData THEN s.groupData[groupName].dimension ELSE 0

\* a size query with the default of the dimension query: the fault C18 rules out
GetDataGroupSizeOrZero(s, groupName) ==
    IF groupName \in DOMAIN s.groupData THEN s.groupData[groupName].size ELSE 0

\* getDataGroupSize(groupName)
GetDataGroupSize(s, groupName) ==
    IF groupName \in DOMAIN s.groupData THEN s.groupData[groupName].size ELSE -1

(***************************************************************************)
(* DataEmbedder.encodeSettingsJSON, DataEmbedder.decodeSettingsJSON        *)
(* json.dumps and json.loads map None, strings, booleans, integers and     *)
(* dicts of them to JSON and back to equal values; the text is not kept.   *)
(***************************************************************************)
EncodeSettingsJSON(s) ==
    [fittedCoordinatesField |-> s.fittedCoordinatesFieldName,
     materialCoordinatesField |-> s.materialCoordinatesFieldName,
     dataCoordinatesField |-> s.dataCoordinatesFieldName,
     hostMarkerGroup |-> s.hostMarkerGroupName,
     dataMarkerGroup |-> s.dataMarkerGroupName,
     diagnosticLevel |-> s.diagnosticLevel,
     groupData |-> s.groupData]

DecodeSettingsJSON(s, dct) ==
    [s EXCEPT !.fittedCoordinatesFieldName = dct.fittedCoordinatesField,
              !.materialCoordinatesFieldName = dct.materialCoordinatesField,
              !.dataCoordinatesFieldName = dct.dataCoordinatesField,
              !.hostMarkerGroupName =
                  IF "hostMarkerGroup" \in DOMAIN dct THEN dct.hostMarkerGroup ELSE NoGroupName,
              !.dataMarkerGroupName = dct.dataMarkerGroup,
              !.diagnosticLevel = dct.diagnosticLevel,
              !.groupData = dct.groupData]

\* the settings with the key of the projection group
EncodeProjectionSettingsJSON(s) ==
    EncodeSettingsJSON(s) @@ [hostProjectionGroup |-> s.hostProjectionGroupName]

DecodeProjectionSettingsJSON(s, dct) ==
    [DecodeSettingsJSON(s, dct) EXCEPT !.hostProjectionGroupName = dct.hostProjectionGroup]

\* the engine object as one record, for the operators that model methods
Self ==
    [hostRegion |-> hostRegion, hostFields |-> hostFields, hostGroups |-> hostGroups,
     outputDataRegion |-> outputDataRegion,
     fittedCoordinatesField |-> fittedCoordinatesField,
     fittedCoordinatesFieldName |-> fittedCoordinatesFieldName,
     materialCoordinatesField |-> materialCoordinatesField,
     materialCoordinatesFieldName |-> materialCoordinatesFieldName,
     dataCoordinatesField |-> dataCoordinatesField,
     dataCoordinatesFieldName |-> dataCoordinatesFieldName,
     dataMarkerGroup |-> dataMarkerGroup, dataMarkerGroupName |-> dataMarkerGroupName,
     dataMarkerCoordinatesField |-> dataMarkerCoordinatesField,
     dataMarkerNameField |-> dataMarkerNameField,
     hostFindMaterialCoordinatesField |-> hostFindMaterialCoordinatesField,
     diagnosticLevel |-> diagnosticLevel,
     hostProjectionGroup |-> hostProjectionGroup,
     hostProjectionGroupName |-> hostProjectionGroupName,
     hostMarkerGroup |-> hostMarkerGroup, hostMarkerGroupName |-> hostMarkerGroupName,
     needGenerateOutput |-> needGenerateOutput, groupData |-> groupData]

\* What the model keeps of an output region.  Its contents are kept while it
\* is the cached result (needGenerateOutput false); of a region that
\* generateOutput() will remove and replace, only its existence, its parent
\* and whether it was completed are kept.
Kept(region, dirty) ==
    IF dirty
    THEN [NoRegion EXCEPT !.exists = region.exists, !.parent = region.parent,
                          !.complete = region.complete]
    ELSE region

\* the engine's fields become those of record s
Become(s) ==
    /\ hostRegion' = s.hostRegion
    /\ hostFields' = s.hostFields
    /\ hostGroups' = s.hostGroups
    /\ outputDataRegion' = Kept(s.outputDataRegion, s.needGenerateOutput)
    /\ fittedCoordinatesField' = s.fittedCoordinatesField
    /\ fittedCoordinatesFieldName' = s.fittedCoordinatesFieldName
    /\ materialCoordinatesField' = s.materialCoordinatesField
    /\ materialCoordinatesFieldName' = s.materialCoordinatesFieldName
    /\ dataCoordinatesField' = s.dataCoordinatesField
    /\ dataCoordinatesFieldName' = s.dataCoordinatesFieldName
    /\ dataMarkerGroup' = s.dataMarkerGroup
    /\ dataMarkerGroupName' = s.dataMarkerGroupName
    /\ dataMarkerCoordinatesField' = s.dataMarkerCoordinatesField
    /\ dataMarkerNameField' = s.dataMarkerNameField
    /\ hostFindMaterialCoordinatesField' = s.hostFindMaterialCoordinatesField
    /\ diagnosticLevel' = s.diagnosticLevel
    /\ hostProjectionGroup' = s.hostProjectionGroup
    /\ hostProjectionGroupName' = s.hostProjectionGroupName
    /\ hostMarkerGroup' = s.hostMarkerGroup
    /\ hostMarkerGroupName' = s.hostMarkerGroupName
    /\ needGenerateOutput' = s.needGenerateOutput
    /\ groupData' = s.groupData

\* DataEmbedder.__init__
Constructed ==
    [hostRegion |-> "none", hostFields |-> << >>, hostGroups |-> << >>,
     outputDataRegion |-> NoRegion,
     fittedCoordinatesField |-> NoField, fittedCoordinatesFieldName |-> NoName,
     materialCoordinatesField |-> NoField, materialCoordinatesFieldName |-> NoName,
     dataCoordinatesField |-> NoField, dataCoordinatesFieldName |-> NoName,
     dataMarkerGroup |-> NoGroup, dataMarkerGroupName |-> NoGroupName,
     dataMarkerCoordinatesField |-> NoField, dataMarkerNameField |-> NoField,
     hostFindMaterialCoordinatesField |-> NoMap,
     diagnosticLevel |-> 0,
     hostProjectionGroup |-> NoGroup, hostProjectionGroupName |-> NoGroupName,
     hostMarkerGroup |-> NoGroup, hostMarkerGroupName |-> NoGroupName,
     needGenerateOutput |-> TRUE, groupData |-> << >>]

\* a call as lastCall records it: the operation and, of a generateOutput(),
\* whether the output was Clean when it was called, whether it ran the
\* assembly and whether it raised
Call(op, clean, assembled, raised) ==
    [op |-> op, clean |-> clean, assembled |-> assembled, raised |-> raised]

Init ==
    /\ files \in Scenarios
    /\ hostRegion = Constructed.hostRegion
    /\ hostFields = Constructed.hostFields
    /\ hostGroups = Constructed.hostGroups
    /\ outputDataRegion = Constructed.outputDataRegion
    /\ fittedCoordinatesField = Constructed.fittedCoordinatesField
    /\ fittedCoordinatesFieldName = Constructed.fittedCoordinatesFieldName
    /\ materialCoordinatesField = Constructed.materialCoordinatesField
    /\ materialCoordinatesFieldName = Constructed.materialCoordinatesFieldName
    /\ dataCoordinatesField = Constructed.dataCoordinatesField
    /\ dataCoordinatesFieldName = Constructed.dataCoordinatesFieldName
    /\ dataMarkerGroup = Constructed.dataMarkerGroup
    /\ dataMarkerGroupName = Constructed.dataMarkerGroupName
    /\ dataMarkerCoordinatesField = Constructed.dataMarkerCoordinatesField
    /\ dataMarkerNameField = Constructed.dataMarkerNameField
    /\ hostFindMaterialCoordinatesField = Constructed.hostFindMaterialCoordinatesField
    /\ diagnosticLevel = Constructed.diagnosticLevel
    /\ hostProjectionGroup = Constructed.hostProjectionGroup
    /\ hostProjectionGroupName = Constructed.hostProjectionGroupName
    /\ hostMarkerGroup = Constructed.hostMarkerGroup
    /\ hostMarkerGroupName = Constructed.hostMarkerGroupName
    /\ needGenerateOutput = Constructed.needGenerateOutput
    /\ groupData = Constructed.groupData
    /\ lastCall = Call("other", FALSE, FALSE, FALSE)

(***************************************************************************)
(* The operations a client calls                                           *)
(***************************************************************************)
\* dataEmbedder.load()
DoLoad ==
    /\ Become(Load(Self, files))
    /\ lastCall' = Call("load", FALSE, FALSE, FALSE)
    /\ UNCHANGED files

\* dataEmbedder.decodeSettingsJSON(s)
DoDecodeSettingsJSON ==
    \E dct \in SettingsInputs :
        /\ Become(DecodeSettingsJSON(Self, dct))
        /\ lastCall' = Call("other", FALSE, FALSE, FALSE)
        /\ UNCHANGED files

\* s = dataEmbedder.encodeSettingsJSON(); a new DataEmbedder over the same
\* files; decodeSettingsJSON(s); load().  The new embedder takes the place
\* of the first.
DoRoundTrip ==
    /\ Become(Load(DecodeSettingsJSON(Constructed, EncodeSettingsJSON(Self)), files))
    /\ lastCall' = Call("roundTrip", FALSE, FALSE, FALSE)
    /\ UNCHANGED files

\* dataEmbedder.setFittedCoordinatesField(field) returning changed
SetFittedCoordinatesFieldCall(field, changed) ==
    /\ SetFittedCoordinatesField(Self, field).changed = changed
    /\ Become(SetFittedCoordinatesField(Self, field).self)
    /\ lastCall' = Call("other", FALSE, FALSE, FALSE)
    /\ UNCHANGED files

\* dataEmbedder.setMaterialCoordinatesField(field) returning changed
SetMaterialCoordinatesFieldCall(field, changed) ==
    /\ SetMaterialCoordinatesField(Self, field).changed = changed
    /\ Become(SetMaterialCoordinatesField(Self, field).self)
    /\ lastCall' = Call("other", FALSE, FALSE, FALSE)
    /\ UNCHANGED files

\* dataEmbedder.setDataCoordinatesField(field) returning changed
SetDataCoordinatesFieldCall(field, changed) ==
    /\ SetDataCoordinatesField(Self, field).changed = changed
    /\ Become(SetDataCoordinatesField(Self, field).self)
    /\ lastCall' = Call("other", FALSE, FALSE, FALSE)
    /\ UNCHANGED files

\* dataEmbedder.setDataMarkerGroup(group) returning changed
SetDataMarkerGroupCall(group, changed) ==
    /\ SetDataMarkerGroup(Self, DataFile(files), group).changed = changed
    /\ Become(SetDataMarkerGroup(Self, DataFile(files), group).self)
    /\ lastCall' = Call("other", FALSE, FALSE, FALSE)
    /\ UNCHANGED files

\* dataEmbedder.setDataGroupEmbed(groupName, embed) returning changed
SetDataGroupEmbedCall(groupName, embed, changed) ==
    /\ SetDataGroupEmbed(Self, groupName, embed).changed = changed
    /\ Become(SetDataGroupEmbed(Self, groupName, embed).self)
    /\ lastCall' = Call("other", FALSE, FALSE, FALSE)
    /\ UNCHANGED files

\* the arguments the setters' assertions accept: a finite element field of
\* at most 3 components of the host (data) region, a group of the data
\* region or None
HostFieldArguments == FiniteElementFields(hostFields, "host")
DataFieldArguments == FiniteElementFields(DataFile(files).fields, "data")
DataGroupArguments ==
    {NoGroup} \cup { [region |-> "data", name |-> n] : n \in GroupNames(DataFile(files).groups) }

DoSetFittedCoordinatesField ==
    /\ hostRegion # "none"
    /\ \E field \in HostFieldArguments, changed \in BOOLEAN :
          SetFittedCoordinatesFieldCall(field, changed)

DoSetMaterialCoordinatesField ==
    /\ hostRegion # "none"
    /\ \E field \in HostFieldArguments, changed \in BOOLEAN :
          SetMaterialCoordinatesFieldCall(field, changed)

DoSetDataCoordinatesField ==
    /\ hostRegion # "none"
    /\ \E field \in DataFieldArguments, changed \in BOOLEAN :
          SetDataCoordinatesFieldCall(field, changed)

DoSetDataMarkerGroup ==
    /\ hostRegion # "none"
    /\ \E group \in DataGroupArguments, changed \in BOOLEAN :
          SetDataMarkerGroupCall(group, changed)

DoSetDataGroupEmbed ==
    \E groupName \in DOMAIN groupData \cup {"unknown"}, embed \in BOOLEAN, changed \in BOOLEAN :
        SetDataGroupEmbedCall(groupName, embed, changed)

\* dataEmbedder.generateOutput()
DoGenerateOutput ==
    /\ Become(GenerateOutput(Self, DataFile(files)).self)
    /\ lastCall' = Call("generateOutput", ~needGenerateOutput,
                        GenerateOutput(Self, DataFile(files)).assembled,
                        GenerateOutput(Self, DataFile(files)).raised)
    /\ UNCHANGED files

Next ==
    \/ DoLoad
    \/ DoDecodeSettingsJSON
    \/ DoRoundTrip
    \/ DoSetFittedCoordinatesField
    \/ DoSetMaterialCoordinatesField
    \/ DoSetDataCoordinatesField
    \/ DoSetDataMarkerGroup
    \/ DoSetDataGroupEmbed
    \/ DoGenerateOutput

Spec == Init /\ [][Next]_vars

(***************************************************************************)
(* The queries of the group table, as calls a client makes.  A query       *)
(* assigns nothing; lastCall records its argument, the value it returns    *)
(* and whether it printed its "no group of name" message to stderr.        *)
(***************************************************************************)
engine ==
    <<hostRegion, hostFields, hostGroups, outputDataRegion,
      fittedCoordinatesField, fittedCoordinatesFieldName,
      materialCoordinatesField, materialCoordinatesFieldName,
      dataCoordinatesField, dataCoordinatesFieldName,
      dataMarkerGroup, dataMarkerGroupName,
      dataMarkerCoordinatesField, dataMarkerNameField,
      hostFindMaterialCoordinatesField, diagnosticLevel,
      hostProjectionGroup, hostProjectionGroupName,
      hostMarkerGroup, hostMarkerGroupName, needGenerateOutput, groupData>>

QueryOps == {"getDataGroupDimension", "getDataGroupSize", "isDataGroupEmbed"}
QueryNames == {"cube", "line", "void", "unknown"}

\* the value query op returns for groupName
QueryResult(s, op, groupName) ==
    CASE op = "getDataGroupDimension" -> GetDataGroupDimension(s, groupName)
      [] op = "getDataGroupSize" -> GetDataGroupSize(s, groupName)
      [] op = "isDataGroupEmbed" -> IsDataGroupEmbed(s.groupData, groupName)

\* the query prints when the table has no record of the name
QueryPrints(s, groupName) == groupName \notin DOMAIN s.groupData

QueryCall(op, groupName) ==
    /\ lastCall' = [op |-> op, clean |-> FALSE, assembled |-> FALSE, raised |-> FALSE,
                    groupName |-> groupName,
                    result |-> QueryResult(Self, op, groupName),
                    printed |-> QueryPrints(Self, groupName)]
    /\ UNCHANGED <<files, engine>>

DoQuery == \E op \in QueryOps, groupName \in QueryNames : QueryCall(op, groupName)

QueryNext ==
    \/ DoLoad
    \/ DoDecodeSettingsJSON
    \/ DoSetDataGroupEmbed
    \/ DoQuery

QuerySpec == Init /\ [][QueryNext]_vars

(***************************************************************************)
(* The engine with its diagnostic level set by the client: the levels the  *)
(* assertion of setDiagnosticLevel accepts, 0 (the default, no messages)   *)
(* and a level with messages.                                              *)
(***************************************************************************)
DiagnosticLevels == {0, 1}

\* dataEmbedder.setDiagnosticLevel(level)
DoSetDiagnosticLevel ==
    \E level \in DiagnosticLevels :
        /\ Become(SetDiagnosticLevel(Self, level))
        /\ lastCall' = Call("other", FALSE, FALSE, FALSE)
        /\ UNCHANGED files

DiagnosticNext ==
    \/ DoLoad
    \/ DoDecodeSettingsJSON
    \/ DoSetDataMarkerGroup
    \/ DoSetDataGroupEmbed
    \/ DoSetDiagnosticLevel
    \/ DoGenerateOutput

DiagnosticSpec == Init /\ [][DiagnosticNext]_vars

(***************************************************************************)
(* The engine over files that may be unreadable when load() is called: the *)
(* assertion on the result of a readFile() fails and load() raises.        *)
(***************************************************************************)
InputFiles == {"fitted", "scaffold", "data"}

\* dataEmbedder.load() raising an AssertionError
DoLoadFailure ==
    \E unreadable \in InputFiles :
        /\ Become(LoadFailure(Self, files, unreadable))
        /\ lastCall' = Call("load", FALSE, FALSE, TRUE)
        /\ UNCHANGED files

LoadFailureNext ==
    \/ DoLoad
    \/ DoLoadFailure
    \/ DoSetDataGroupEmbed
    \/ DoSetDataMarkerGroup
    \/ DoGenerateOutput

LoadFailureSpec == Init /\ [][LoadFailureNext]_vars

(***************************************************************************)
(* The engine with its host projection group.                              *)
(***************************************************************************)
\* dataEmbedder.load()
DoLoadProjection ==
    /\ Become(LoadProjection(Self, files))
    /\ lastCall' = Call("load", FALSE, FALSE, FALSE)
    /\ UNCHANGED files

\* dataEmbedder.setHostProjectionGroup(group) returning changed
SetHostProjectionGroupCall(group, changed) ==
    /\ SetHostProjectionGroup(Self, files, group).changed = changed
    /\ Become(SetHostProjectionGroup(Self, files, group).self)
    /\ lastCall' = Call("other", FALSE, FALSE, FALSE)
    /\ UNCHANGED files

\* the arguments of setHostProjectionGroup: a group of the host or None
HostProjectionGroupArguments ==
    {NoGroup} \cup { [region |-> "host", name |-> n] : n \in GroupNames(ScaffoldFile(files).groups) }

DoSetHostProjectionGroup ==
    /\ hostRegion # "none"
    /\ \E group \in HostProjectionGroupArguments, changed \in BOOLEAN :
          SetHostProjectionGroupCall(group, changed)

\* s = dataEmbedder.encodeSettingsJSON(); a new DataEmbedder over the same
\* files; decodeSettingsJSON(s); load()
DoProjectionRoundTrip ==
    /\ Become(LoadProjection(
                  DecodeProjectionSettingsJSON(Constructed, EncodeProjectionSettingsJSON(Self)),
                  files))
    /\ lastCall' = Call("roundTrip", FALSE, FALSE, FALSE)
    /\ UNCHANGED files

ProjectionNext ==
    \/ DoLoadProjection
    \/ DoSetHostProjectionGroup
    \/ DoSetDataGroupEmbed
    \/ DoGenerateOutput
    \/ DoProjectionRoundTrip

ProjectionSpec == Init /\ [][ProjectionNext]_vars

(***************************************************************************)
(* Properties                                                              *)
(***************************************************************************)
\* the output is Clean: generateOutput() would return the cached region
Clean == ~needGenerateOutput

\* generateOutput() has just returned a region (it did not raise)
Generated == lastCall.op = "generateOutput" /\ ~lastCall.raised

\* the groups of the data file, by name
LiteralNames == GroupNames(DataFile(files).groups)
Literal(n) == DataFile(files).groups[GroupIndex(DataFile(files).groups, n)]

\* C1: when generateOutput() has completed and the next call is again
\* generateOutput(), that second call performs no assembly, does not raise and
\* leaves the very output region the first call returned.
C1_SecondGenerateOutputIsCached ==
    [][(Generated /\ DoGenerateOutput)
          => /\ ~lastCall'.assembled
             /\ ~lastCall'.raised
             /\ outputDataRegion' = outputDataRegion]_vars

\* C1 happens: a generateOutput() that returned the cached, completed region
C1_Witness ==
    /\ lastCall = Call("generateOutput", TRUE, FALSE, FALSE)
    /\ outputDataRegion.exists /\ outputDataRegion.complete
    /\ Clean

\* a setter call that returns True: its argument differs from the current value
ChangingSetterCall ==
    \/ \E field \in HostFieldArguments : SetFittedCoordinatesFieldCall(field, TRUE)
    \/ \E field \in HostFieldArguments : SetMaterialCoordinatesFieldCall(field, TRUE)
    \/ \E field \in DataFieldArguments : SetDataCoordinatesFieldCall(field, TRUE)
    \/ \E group \in DataGroupArguments : SetDataMarkerGroupCall(group, TRUE)
    \/ \E groupName \in DOMAIN groupData, embed \in BOOLEAN :
          SetDataGroupEmbedCall(groupName, embed, TRUE)

\* C2: from a Clean output, every setter call that changes the engine's state
\* (setDataMarkerGroup(None) included) leaves the output Dirty.
C2_ChangingSetterMarksDirty ==
    [][(Clean /\ hostRegion # "none" /\ ChangingSetterCall) => needGenerateOutput']_vars

\* C3: from a Clean output, load() leaves the output Dirty, whether or not the
\* data file has a marker group.
C3_LoadMarksDirty ==
    [][(Clean /\ DoLoad) => needGenerateOutput']_vars

\* C4: the region an assembling generateOutput() returns holds material
\* coordinates computed by an embedding map built from the current fitted
\* coordinates field and the current material coordinates field.
C4_MapFromCurrentFields ==
    (Generated /\ lastCall.assembled)
        => /\ outputDataRegion.map.fitted = fittedCoordinatesField
           /\ outputDataRegion.map.material = materialCoordinatesField

\* C5: load() gives every group of the data file whose name the prior table
\* does not hold the embed flag False if the host has a group of that name, or
\* the group's size is 0, or the group is the data marker group, else True.
C5_DefaultEmbedOfLiteralGroups ==
    [][DoLoad =>
          \A n \in LiteralNames \ DOMAIN groupData :
              groupData'[n].embed =
                  ~ \/ n \in GroupNames(hostGroups')
                    \/ groupData'[n].size = 0
                    \/ (dataMarkerGroup' # NoGroup /\ dataMarkerGroup'.name = n)]_vars

\* C5 happens: a load() of the file set whose data has a group also in the
\* host, a group of size 0 and a group that is neither
C5_Witness ==
    /\ lastCall.op = "load" /\ files = "surface"
    /\ ~groupData["bottom"].embed
    /\ ~groupData["spare"].embed /\ groupData["spare"].size = 0
    /\ groupData["line"].embed

\* C6: load() keeps the embed flag of every name that is in the prior table
\* and in the new one, gives the default to the other names of the new table,
\* and records dimensions and sizes that do not depend on the prior table.
C6_PriorEmbedKept ==
    [][DoLoad =>
          \A n \in DOMAIN groupData' :
              /\ n \in DOMAIN groupData => groupData'[n].embed = groupData[n].embed
              /\ n \notin DOMAIN groupData =>
                     groupData'[n].embed =
                         IF n \in LiteralNames
                         THEN ~ \/ n \in GroupNames(hostGroups')
                                \/ groupData'[n].size = 0
                                \/ (dataMarkerGroup' # NoGroup /\ dataMarkerGroup'.name = n)
                         ELSE ~ \/ n \in GroupNames(hostGroups')
                                \/ n = dataMarkerGroupName'
              /\ LET fresh == Load([Self EXCEPT !.groupData = << >>], files).groupData[n]
                 IN  /\ groupData'[n].dimension = fresh.dimension
                     /\ groupData'[n].size = fresh.size]_vars

\* C6 happens: after a load(), group "cube" (a volume group not in the host,
\* default True) holds the False and not the dimension 1 of the prior table
C6_Witness ==
    /\ lastCall.op = "load" /\ files = "volume"
    /\ ~groupData["cube"].embed
    /\ groupData["cube"].dimension = 3 /\ groupData["cube"].size = 1

\* a loaded embedder whose names are those of its fields and marker group (no
\* settings decoded since the load)
Settled ==
    /\ hostRegion # "none"
    /\ fittedCoordinatesFieldName = fittedCoordinatesField.name
    /\ materialCoordinatesFieldName = materialCoordinatesField.name
    /\ dataCoordinatesFieldName = dataCoordinatesField.name
    /\ dataMarkerGroupName = dataMarkerGroup.name

\* C7: a loaded embedder's settings, encoded, decoded by a new embedder over
\* the same files and loaded, give the same coordinates field names, the same
\* data marker group name, the same group names and the same embed flags.
C7_SettingsRoundTrip ==
    [][(Settled /\ DoRoundTrip)
          => /\ dataCoordinatesFieldName' = dataCoordinatesFieldName
             /\ fittedCoordinatesFieldName' = fittedCoordinatesFieldName
             /\ materialCoordinatesFieldName' = materialCoordinatesFieldName
             /\ dataMarkerGroupName' = dataMarkerGroupName
             /\ DOMAIN groupData' = DOMAIN groupData
             /\ \A n \in DOMAIN groupData : groupData'[n].embed = groupData[n].embed]_vars

\* the members of the groups of the table: those of a group of the data file,
\* or the marker group's points of that name
NameOfPoint(p) == EvaluateMarkerName(DataFile(files), dataMarkerNameField, p)
MarkerPoints ==
    IF dataMarkerGroup # NoGroup /\ dataMarkerNameField # NoField
    THEN Literal(dataMarkerGroup.name).datapoints ELSE {}
ElementsOfName(n) == IF n \in LiteralNames THEN Literal(n).elements ELSE {}
PointsOfName(n) ==
    IF n \in LiteralNames THEN Literal(n).nodes \cup Literal(n).datapoints
    ELSE { p \in MarkerPoints : NameOfPoint(p) = n }
EmbedNames == { n \in DOMAIN groupData : groupData[n].embed }
\* names with the flag False that are not the marker group
DroppedNames ==
    { n \in DOMAIN groupData : ~groupData[n].embed /\ n # dataMarkerGroupName }
\* the names of the table an element or point belongs to
NamesOfElement(e) == { n \in DOMAIN groupData : e \in ElementsOfName(n) }
NamesOfPoint(p) == { n \in DOMAIN groupData : p \in PointsOfName(n) }
OutputPoints == outputDataRegion.nodes \cup outputDataRegion.datapoints

\* C8: in the region generateOutput() returns, every element and point of a
\* group whose embed flag is True is present, every such point has a material
\* coordinates value, and every element and point that belongs only to groups
\* whose flag is False and that are not the marker group is absent.
C8_Retention ==
    Generated =>
        /\ \A n \in EmbedNames :
              /\ ElementsOfName(n) \subseteq outputDataRegion.elements
              /\ PointsOfName(n) \subseteq OutputPoints
              /\ PointsOfName(n) \subseteq outputDataRegion.materialDefined
        /\ \A e \in DOMAIN DataFile(files).elementDimension :
              (NamesOfElement(e) # {} /\ NamesOfElement(e) \subseteq DroppedNames)
                  => e \notin outputDataRegion.elements
        /\ \A p \in DataFile(files).nodes \cup
                    { DataFile(files).datapoints[i] : i \in 1..Len(DataFile(files).datapoints) } :
              (NamesOfPoint(p) # {} /\ NamesOfPoint(p) \subseteq DroppedNames)
                  => p \notin OutputPoints

\* C9: the groups of the region generateOutput() returns are exactly the
\* names of the table whose embed flag is True and the data marker group.
C9_OutputGroups ==
    Generated =>
        outputDataRegion.groups =
            EmbedNames \cup (IF dataMarkerGroup # NoGroup THEN {dataMarkerGroup.name} ELSE {})

\* what C10 says of a group of the data file, its point members being the set
\* points: [dimension, size]
DimensionAndSize(n, points) ==
    LET dims == { DataFile(files).elementDimension[e] : e \in Literal(n).elements }
    IN  IF dims # {}
        THEN LET d == CHOOSE x \in dims : \A y \in dims : y <= x
             IN  [dimension |-> d,
                  size |-> Cardinality({ e \in Literal(n).elements :
                                           DataFile(files).elementDimension[e] = d })]
        ELSE [dimension |-> 0, size |-> Cardinality(points)]

Loaded == lastCall.op \in {"load", "roundTrip"}

\* C10 as stated: after load(), a group's dimension is the highest at which
\* it has elements and its size their number; a group without elements has
\* dimension 0 and for size the number of its point members, nodes and
\* datapoints alike.
C10_DimensionAndSizeOfAllPoints ==
    Loaded =>
        \A n \in LiteralNames :
            /\ groupData[n].dimension
                   = DimensionAndSize(n, Literal(n).nodes \cup Literal(n).datapoints).dimension
            /\ groupData[n].size
                   = DimensionAndSize(n, Literal(n).nodes \cup Literal(n).datapoints).size

\* C10, amended: as above, but the size of a group without elements is the
\* number of its datapoints; its nodes are not counted.  The dimension is in
\* 0..3 and the size is not negative.
C10_DimensionAndSize ==
    Loaded =>
        \A n \in LiteralNames :
            /\ groupData[n].dimension = DimensionAndSize(n, Literal(n).datapoints).dimension
            /\ groupData[n].size = DimensionAndSize(n, Literal(n).datapoints).size
            /\ groupData[n].dimension \in 0..3
            /\ groupData[n].size >= 0

\* C10 happens: a load() of data with a group of lines, a group of a line and
\* a datapoint, and a group of one node only
C10_Witness ==
    /\ Loaded /\ files = "surface"
    /\ groupData["line"].dimension = 1 /\ groupData["line"].size = 2
    /\ groupData["bottom"].dimension = 1 /\ groupData["bottom"].size = 1
    /\ groupData["spare"].dimension = 0 /\ groupData["spare"].size = 0

\* the groups of the data file with no element, no node and no datapoint
EmptyLiteralNames ==
    { n \in LiteralNames :
        Literal(n).elements = {} /\ Literal(n).nodes = {} /\ Literal(n).datapoints = {} }

\* C11 as stated: after load(), a group of the data file with zero elements
\* and zero points does not exist for hasDataGroup() and getDataGroupNames().
C11_EmptyGroupNotEnumerable ==
    Loaded =>
        \A n \in EmptyLiteralNames :
            ~HasDataGroup(Self, n) /\ n \notin GetDataGroupNames(Self)

\* C11, amended: after load(), a group of the data file with zero elements
\* and zero points exists for hasDataGroup() and getDataGroupNames(), with
\* dimension 0 and size 0.
C11_EmptyGroupEnumerated ==
    Loaded =>
        \A n \in EmptyLiteralNames :
            /\ HasDataGroup(Self, n) /\ n \in GetDataGroupNames(Self)
            /\ GetDataGroupDimension(Self, n) = 0
            /\ GetDataGroupSize(Self, n) = 0

\* C11 happens: a load() of data with an empty group, found in the table with
\* the flag False that size 0 gives it
C11_Witness ==
    /\ lastCall.op = "load" /\ EmptyLiteralNames # {}
    /\ \A n \in EmptyLiteralNames : HasDataGroup(Self, n) /\ ~IsDataGroupEmbed(groupData, n)

\* the distinct non-empty names of the marker group's datapoints
MarkerNames == { NameOfPoint(p) : p \in MarkerPoints } \ {""}
PointsNamed(n) == { p \in MarkerPoints : NameOfPoint(p) = n }

\* C12: when load() leaves a data marker group and a marker name field, it
\* derives one record for each distinct non-empty name of the marker group's
\* datapoints and for no other name, of dimension 0, of size the number of the
\* marker datapoints of that name and of embed flag False if the name is a
\* host group's or the marker group's, else True; the table holds that
\* record under every such name that is not a group of the data file, its
\* flag being the derived one when the prior table lacks the name.
C12_MarkerGroupRecords ==
    [][(lastCall'.op = "load" /\ DoLoad
           /\ dataMarkerGroup' # NoGroup /\ dataMarkerNameField' # NoField) =>
          LET derived == MarkerGroupData(Self, DataFile(files))'
          IN  /\ DOMAIN derived = MarkerNames'
              /\ \A n \in MarkerNames' :
                    /\ derived[n].dimension = 0
                    /\ derived[n].size = Cardinality(PointsNamed(n)')
                    /\ derived[n].embed =
                          ~(n \in GroupNames(hostGroups') \/ n = dataMarkerGroup'.name)
                    /\ n \in DOMAIN groupData'
                    /\ n \notin LiteralNames' =>
                          /\ groupData'[n].dimension = 0
                          /\ groupData'[n].size = derived[n].size
                          /\ n \notin DOMAIN groupData =>
                                groupData'[n].embed = derived[n].embed]_vars

\* C12 happens: a load() whose marker group has two datapoints named "ICN"
\* (no host group: flag True), and one whose marker group has a datapoint
\* named "top" as a host group is (flag False)
C12_Witness ==
    /\ lastCall.op = "load"
    /\ dataMarkerGroup # NoGroup /\ dataMarkerNameField # NoField
    /\ \/ /\ files = "volume"
          /\ groupData["ICN"] = [embed |-> TRUE, dimension |-> 0, size |-> 2]
       \/ /\ files = "fiducial"
          /\ groupData["top"] = [embed |-> FALSE, dimension |-> 0, size |-> 1]

\* C13: when load() finds a marker datapoint whose name is the name of a
\* group of the data file, the table holds under that name the dimension and
\* size of the group of the data file (and its default flag when the prior
\* table lacks the name), not the record derived from the marker datapoints.
C13_LiteralGroupWins ==
    [][(lastCall'.op = "load" /\ DoLoad
           /\ dataMarkerGroup' # NoGroup /\ dataMarkerNameField' # NoField) =>
          \A n \in MarkerNames' \cap LiteralNames' :
              LET literal == DimensionAndSize(n, Literal(n).datapoints)'
              IN  /\ groupData'[n].dimension = literal.dimension
                  /\ groupData'[n].size = literal.size
                  /\ n \notin DOMAIN groupData =>
                        groupData'[n].embed =
                            ~ \/ n \in GroupNames(hostGroups')
                              \/ literal.size = 0
                              \/ dataMarkerGroup'.name = n]_vars

\* C13 happens: a load() whose marker group has one datapoint named "cube",
\* the name of a group of one volume element: the table says dimension 3
C13_Witness ==
    /\ lastCall.op = "load" /\ files = "volume"
    /\ dataMarkerGroup # NoGroup /\ dataMarkerNameField # NoField
    /\ "cube" \in MarkerNames
    /\ groupData["cube"].dimension = 3 /\ groupData["cube"].size = 1

\* the defaults C18 states, and those with the size query's -1
StatedDefault(op) ==
    CASE op = "getDataGroupDimension" -> 0
      [] op = "getDataGroupSize" -> 0
      [] op = "isDataGroupEmbed" -> FALSE
ReturnedDefault(op) ==
    CASE op = "getDataGroupDimension" -> 0
      [] op = "getDataGroupSize" -> -1
      [] op = "isDataGroupEmbed" -> FALSE

\* C18 as stated: a query of a name the table lacks does not raise, prints a
\* message, changes nothing, and returns 0 for the dimension, 0 for the size
\* and False for the embed flag.
C18_UnknownGroupDefaultsZero ==
    [][(lastCall'.op \in QueryOps /\ DoQuery /\ lastCall'.groupName \notin DOMAIN groupData)
          => /\ ~lastCall'.raised
             /\ lastCall'.printed
             /\ lastCall'.result = StatedDefault(lastCall'.op)
             /\ UNCHANGED engine]_vars

\* C18, amended: as above, but the size query returns -1.
C18_UnknownGroupDefaults ==
    [][(lastCall'.op \in QueryOps /\ DoQuery /\ lastCall'.groupName \notin DOMAIN groupData)
          => /\ ~lastCall'.raised
             /\ lastCall'.printed
             /\ lastCall'.result = ReturnedDefault(lastCall'.op)
             /\ UNCHANGED engine]_vars

\* C18 happens: after a load(), a size query of a name the table lacks, which
\* returned -1
C18_Witness ==
    /\ lastCall.op = "getDataGroupSize"
    /\ groupData # << >> /\ lastCall.groupName \notin DOMAIN groupData
    /\ lastCall.printed /\ lastCall.result = -1

\* the names of the table with the embed flag True that are no group of the
\* data file while the marker group or the marker name field is unavailable
Unmaterializable ==
    { n \in EmbedNames :
        n \notin LiteralNames /\ (dataMarkerGroup = NoGroup \/ dataMarkerNameField = NoField) }

\* generateOutput() on the same engine with the names of set skipped taken
\* out of the table
WithoutEntries(skipped) ==
    GenerateOutput([Self EXCEPT !.groupData =
                       [n \in DOMAIN groupData \ skipped |-> groupData[n]]],
                   DataFile(files))

\* C19 as stated: an assembling generateOutput() that meets such entries, and
\* that completes when the table lacks them, prints a diagnostic for each of
\* them, makes no group of them, keeps every other group whose flag is True
\* and completes with the output Clean.
C19_SkippedWithDiagnostic ==
    [][(/\ lastCall'.op = "generateOutput" /\ DoGenerateOutput /\ lastCall'.assembled
        /\ Unmaterializable # {}
        /\ ~WithoutEntries(Unmaterializable).raised)
          => /\ GenerateOutput(Self, DataFile(files)).missing = Unmaterializable
             /\ Unmaterializable \cap outputDataRegion'.groups = {}
             /\ (EmbedNames \cap LiteralNames) \subseteq outputDataRegion'.groups
             /\ ~lastCall'.raised /\ ~needGenerateOutput' /\ outputDataRegion'.complete]_vars

\* C19, amended: an assembling generateOutput() that meets such entries
\* prints a diagnostic for each of them if the diagnostic level is above 0
\* and none otherwise, makes no group of them, and ends as it does when the
\* table lacks those entries: with the same output region, raising if and
\* only if it raises then, and else keeping every other group whose flag is
\* True and leaving the output Clean.
C19_SkippedQuietlyAtLevelZero ==
    [][(/\ lastCall'.op = "generateOutput" /\ DoGenerateOutput /\ lastCall'.assembled
        /\ Unmaterializable # {})
          => /\ GenerateOutput(Self, DataFile(files)).missing
                  = (IF diagnosticLevel > 0 THEN Unmaterializable ELSE {})
             /\ Unmaterializable \cap outputDataRegion'.groups = {}
             /\ lastCall'.raised = WithoutEntries(Unmaterializable).raised
             /\ outputDataRegion'
                  = Kept(WithoutEntries(Unmaterializable).self.outputDataRegion,
                         WithoutEntries(Unmaterializable).self.needGenerateOutput)
             /\ ~lastCall'.raised =>
                    /\ (EmbedNames \cap LiteralNames) \subseteq outputDataRegion'.groups
                    /\ ~needGenerateOutput' /\ outputDataRegion'.complete]_vars

\* C19 happens: at a diagnostic level above 0, a generateOutput() that ran the
\* assembly over a table with such an entry and another group whose flag is
\* True, and completed
C19_Witness ==
    /\ lastCall = Call("generateOutput", FALSE, TRUE, FALSE)
    /\ diagnosticLevel > 0
    /\ Unmaterializable # {}
    /\ EmbedNames \cap LiteralNames # {}
    /\ Clean /\ outputDataRegion.complete
    /\ EmbedNames \cap LiteralNames \subseteq outputDataRegion.groups

\* the names of the fields of the output region before the material
\* coordinates are written: those of the data file
OutputFieldNames ==
    { DataFile(files).fields[i].name : i \in 1..Len(DataFile(files).fields) }

\* generateOutput() cannot apply the embedding map: there is none, or a data
\* coordinates field is missing from the output
CannotEmbed ==
    \/ hostFindMaterialCoordinatesField = NoMap
    \/ \E i \in 1..Len(OutputDataCoordinatesFieldNames(Self)) :
          LET k == FieldIndex(DataFile(files).fields, OutputDataCoordinatesFieldNames(Self)[i])
          IN  k = 0 \/ DataFile(files).fields[k].kind # "fe"

\* C17: an assembling generateOutput() with a material coordinates field name
\* prints the warning exactly when a field of the output has that name; when
\* it completes, the material coordinates are under the host field's name if
\* no field of the output has it, else under a name that starts with
\* "material " and the host field's name and that no field of the output has,
\* and no field the data file had is written over; and it does not raise
\* because of the collision.
C17_MaterialNameNeverCollides ==
    [][(/\ lastCall'.op = "generateOutput" /\ DoGenerateOutput /\ lastCall'.assembled
        /\ materialCoordinatesFieldName # NoName)
          => LET collides == materialCoordinatesFieldName \in OutputFieldNames
             IN  /\ GenerateOutput(Self, DataFile(files)).warned = collides
                 /\ (collides /\ lastCall'.raised) => CannotEmbed
                 /\ ~lastCall'.raised =>
                      /\ outputDataRegion'.overwritten = {}
                      /\ ~collides =>
                            outputDataRegion'.materialName = materialCoordinatesFieldName
                      /\ collides =>
                            /\ outputDataRegion'.materialName \notin OutputFieldNames
                            /\ StartsWith(outputDataRegion'.materialName,
                                          <<"material">> \o materialCoordinatesFieldName)]_vars

\* C14: in the region an assembling generateOutput() returns for a host of
\* dimension 3, the material coordinates of every point inside the fitted
\* domain come from the exact search of the fitted mesh group, and those of
\* every point outside of it from the nearest search of the boundary mesh
\* group, never from a search of the interior.
C14_ExactThenBoundary ==
    (Generated /\ lastCall.assembled /\ FittedGeometryFile(files).dimension = 3)
        => \A p \in outputDataRegion.materialDefined :
              outputDataRegion.resolved[p] =
                  IF p \in DataFile(files).located["fitted"]
                  THEN [searchMesh |-> MeshGroup("fitted"), searchMode |-> "exact"]
                  ELSE [searchMesh |-> BoundaryMeshGroup("fitted"), searchMode |-> "nearest"]

\* C14 happens: an output for the host of dimension 3 that holds a marker
\* point inside the fitted domain and one outside of it
C14_Witness ==
    /\ Generated /\ lastCall.assembled /\ files = "volume"
    /\ {"p1", "p2"} \subseteq outputDataRegion.materialDefined
    /\ outputDataRegion.resolved["p1"].searchMode = "exact"
    /\ outputDataRegion.resolved["p2"].searchMesh = BoundaryMeshGroup("fitted")

\* load() has just raised
LoadFailed == lastCall.op = "load" /\ lastCall.raised

\* C20: when load() raises because a file cannot be read, the engine is left
\* with no host region, no fitted, material or data coordinates field and no
\* embedding map, and a generateOutput() called next does not return a region
\* it had cached.
C20_FailedLoadLeavesNothing ==
    [][/\ LoadFailed' =>
            /\ hostRegion' = "none"
            /\ fittedCoordinatesField' = NoField
            /\ materialCoordinatesField' = NoField
            /\ dataCoordinatesField' = NoField
            /\ hostFindMaterialCoordinatesField' = NoMap
       /\ (LoadFailed /\ DoGenerateOutput) =>
            (lastCall'.raised \/ lastCall'.assembled)]_vars

\* C15: in the region an assembling generateOutput() returns while a host
\* projection group is set, the material coordinates of every point come from
\* a search of the elements of that group or of their boundary: from the
\* exact search only for a point inside the group's elements, and for every
\* other point, those inside the rest of the fitted domain included, from the
\* nearest search (of the group's boundary for a host of dimension 3).
C15_ProjectionConfinesSearch ==
    (Generated /\ lastCall.assembled /\ hostProjectionGroup # NoGroup)
        => \A p \in outputDataRegion.materialDefined :
              LET found == outputDataRegion.resolved[p]
                  inGroup == p \in DataFile(files).located[hostProjectionGroup.name]
              IN  /\ found.searchMesh.group = hostProjectionGroup.name
                  /\ found.searchMode = "exact" => inGroup
                  /\ FittedGeometryFile(files).dimension = 3 =>
                        found = IF inGroup
                                THEN [searchMesh |-> MeshGroup(hostProjectionGroup.name),
                                      searchMode |-> "exact"]
                                ELSE [searchMesh |-> BoundaryMeshGroup(hostProjectionGroup.name),
                                      searchMode |-> "nearest"]

\* C15 happens: with the projection group "top", an output whose point p1,
\* inside the fitted domain, is resolved on the boundary of "top"
C15_Witness ==
    /\ Generated /\ lastCall.assembled /\ files = "volume"
    /\ hostProjectionGroup = [region |-> "host", name |-> "top"]
    /\ "p1" \in DataFile(files).located["fitted"]
    /\ "p1" \in outputDataRegion.materialDefined
    /\ outputDataRegion.resolved["p1"].searchMesh = BoundaryMeshGroup("top")

\* C16: getHostProjectionGroup() is None after a load() with no projection
\* group in the settings; setHostProjectionGroup(g) with a group of the host
\* other than the current one returns True and makes g the projection group;
\* and the settings encoded, decoded by a new embedder and loaded give the
\* host group of the same name.
C16_ProjectionGroupSetting ==
    [][/\ (lastCall'.op = "load" /\ DoLoadProjection /\ hostProjectionGroupName = NoGroupName)
            => GetHostProjectionGroup(Self)' = NoGroup
       /\ \A g \in HostProjectionGroupArguments \ {NoGroup, hostProjectionGroup} :
            \A changed \in BOOLEAN :
               (hostRegion # "none" /\ SetHostProjectionGroupCall(g, changed))
                  => (changed /\ GetHostProjectionGroup(Self)' = g)
       /\ (lastCall'.op = "roundTrip" /\ DoProjectionRoundTrip /\ hostRegion # "none")
            => /\ GetHostProjectionGroup(Self)'.name = GetHostProjectionGroup(Self).name
               /\ GetHostProjectionGroup(Self) # NoGroup =>
                     GetHostProjectionGroup(Self)'.region = "host"]_vars

\* C16 happens: a new embedder that decoded the settings and loaded has the
\* projection group "top"
C16_Witness ==
    /\ lastCall.op = "roundTrip"
    /\ GetHostProjectionGroup(Self) = [region |-> "host", name |-> "top"]

(***************************************************************************)
(* Coordinate fields that are not found.  The file sets include those      *)
(* without a coordinate-typed field, the settings name fields that no file *)
(* has, and a load() records the names it printed "Did not find            *)
(* coordinates field of name" for.                                         *)
(***************************************************************************)
FieldFileSets == Scenarios \cup PlainScenarios \cup TwoFieldScenarios

\* settings written for other files: none of the three names is a field's
StaleSettingsInputs ==
    { [fittedCoordinatesField |-> <<"fitted", "xi">>,
       materialCoordinatesField |-> <<"xi">>,
       dataCoordinatesField |-> <<"xi">>, dataMarkerGroup |-> NoGroupName,
       diagnosticLevel |-> level,
       groupData |-> << >>] : level \in DiagnosticLevels }

FieldInit ==
    /\ files \in FieldFileSets
    /\ hostRegion = Constructed.hostRegion
    /\ hostFields = Constructed.hostFields
    /\ hostGroups = Constructed.hostGroups
    /\ outputDataRegion = Constructed.outputDataRegion
    /\ fittedCoordinatesField = Constructed.fittedCoordinatesField
    /\ fittedCoordinatesFieldName = Constructed.fittedCoordinatesFieldName
    /\ materialCoordinatesField = Constructed.materialCoordinatesField
    /\ materialCoordinatesFieldName = Constructed.materialCoordinatesFieldName
    /\ dataCoordinatesField = Constructed.dataCoordinatesField
    /\ dataCoordinatesFieldName = Constructed.dataCoordinatesFieldName
    /\ dataMarkerGroup = Constructed.dataMarkerGroup
    /\ dataMarkerGroupName = Constructed.dataMarkerGroupName
    /\ dataMarkerCoordinatesField = Constructed.dataMarkerCoordinatesField
    /\ dataMarkerNameField = Constructed.dataMarkerNameField
    /\ hostFindMaterialCoordinatesField = Constructed.hostFindMaterialCoordinatesField
    /\ diagnosticLevel = Constructed.diagnosticLevel
    /\ hostProjectionGroup = Constructed.hostProjectionGroup
    /\ hostProjectionGroupName = Constructed.hostProjectionGroupName
    /\ hostMarkerGroup = Constructed.hostMarkerGroup
    /\ hostMarkerGroupName = Constructed.hostMarkerGroupName
    /\ needGenerateOutput = Constructed.needGenerateOutput
    /\ groupData = Constructed.groupData
    /\ lastCall = Call("other", FALSE, FALSE, FALSE)

\* dataEmbedder.load(), with what it printed
DoLoadReporting ==
    /\ Become(Load(Self, files))
    /\ lastCall' = [op |-> "load", clean |-> FALSE, assembled |-> FALSE, raised |-> FALSE,
                    sought |-> << fittedCoordinatesFieldName, materialCoordinatesFieldName,
                                  dataCoordinatesFieldName >>,
                    notFound |-> LoadNotFound(Self, files)]
    /\ UNCHANGED files

\* dataEmbedder.decodeSettingsJSON(s) of settings written for other files
DoDecodeStaleSettings ==
    \E dct \in StaleSettingsInputs :
        /\ Become(DecodeSettingsJSON(Self, dct))
        /\ lastCall' = Call("other", FALSE, FALSE, FALSE)
        /\ UNCHANGED files

FieldNext ==
    \/ DoLoadReporting
    \/ DoDecodeStaleSettings
    \/ DoSetDataCoordinatesField
    \/ DoSetDataGroupEmbed
    \/ DoGenerateOutput

FieldSpec == FieldInit /\ [][FieldNext]_vars

(***************************************************************************)
(* C21                                                                     *)
(***************************************************************************)
\* the coordinate-typed finite element fields of at most 3 components
CoordinateFields(fields) ==
    { i \in 1..Len(fields) : fields[i].kind = "fe" /\ fields[i].ncomp <= 3 /\ fields[i].coord }

\* the first of them in iteration order, 0 when there is none
FirstCoordinateField(fields) ==
    IF CoordinateFields(fields) = {} THEN 0
    ELSE CHOOSE i \in CoordinateFields(fields) : \A j \in CoordinateFields(fields) : i <= j

\* no field of the region has the name, with or without the prefix
Unmatched(fields, fieldName, namePrefix) ==
    /\ fieldName # NoName
    /\ \A i \in 1..Len(fields) :
          fields[i].name # fieldName /\ namePrefix \o fields[i].name # fieldName

\* load() printed the "Did not find coordinates field" message for the name
NotFoundPrinted(call, fieldName) ==
    \E i \in 1..Len(call.notFound) : call.notFound[i] = fieldName

\* C21: when the fitted, material or data coordinates field name set before a
\* load() is the name of no field of the region searched, and the region has
\* a coordinate-typed finite element field of at most 3 components, load()
\* selects the first such field of the region, prints the "Did not find
\* coordinates field" message for the name, and records the name the selected
\* field has after the load as the current field name.
C21_FallsBackToFirstCoordinateField ==
    [][(lastCall'.op = "load" /\ DoLoadReporting) =>
         LET fittedFields == FittedGeometryFile(files).fields
             dataFields == DataFile(files).fields
             f == FirstCoordinateField(fittedFields)
             m == FirstCoordinateField(hostFields')
             d == FirstCoordinateField(dataFields)
         IN  /\ (Unmatched(fittedFields, fittedCoordinatesFieldName, <<"fitted">>) /\ f # 0) =>
                    /\ fittedCoordinatesField' = [region |-> "host", name |-> hostFields'[f].name]
                    /\ fittedCoordinatesFieldName' = hostFields'[f].name
                    /\ NotFoundPrinted(lastCall', fittedCoordinatesFieldName)
             /\ (Unmatched(hostFields', materialCoordinatesFieldName, << >>) /\ m # 0) =>
                    /\ materialCoordinatesField' = [region |-> "host", name |-> hostFields'[m].name]
                    /\ materialCoordinatesFieldName' = hostFields'[m].name
                    /\ NotFoundPrinted(lastCall', materialCoordinatesFieldName)
             /\ (Unmatched(dataFields, dataCoordinatesFieldName, << >>) /\ d # 0) =>
                    /\ dataCoordinatesField' = [region |-> "data", name |-> dataFields[d].name]
                    /\ dataCoordinatesFieldName' = dataFields[d].name
                    /\ NotFoundPrinted(lastCall', dataCoordinatesFieldName)]_vars

\* a load() over the "fiducial" files after settings that name a data
\* coordinates field "xi": of the two coordinate fields of the data, the
\* first is the data coordinates field and "xi" was reported
C21_Witness ==
    /\ lastCall.op = "load"
    /\ files = "fiducial"
    /\ lastCall.sought[3] = <<"xi">>
    /\ NotFoundPrinted(lastCall, <<"xi">>)
    /\ dataCoordinatesFieldName = <<"coordinates">>
    /\ fittedCoordinatesFieldName = <<"fitted", "coordinates">>
    /\ materialCoordinatesFieldName = <<"fitted", "coordinates">>

(***************************************************************************)
(* C22                                                                     *)
(***************************************************************************)
\* a load() has completed and left a coordinates field unset
LoadedWithoutField ==
    /\ hostRegion = "host"
    /\ \/ fittedCoordinatesField = NoField
       \/ materialCoordinatesField = NoField
       \/ dataCoordinatesField = NoField

\* C22: when load() has completed with the fitted, material or data
\* coordinates field unset because the files have no coordinate-typed field,
\* a later generateOutput() does not raise.
C22_UnsetFieldIsReported ==
    [][(lastCall'.op = "generateOutput" /\ LoadedWithoutField) => ~lastCall'.raised]_vars

(***************************************************************************)
(* C23                                                                     *)
(***************************************************************************)
\* C23: at diagnostic level 0 a load() prints no "Did not find coordinates
\* field" message for the data coordinates field name that was set: a named
\* coordinate field that is missing is reported only when the diagnostic
\* level is above 0.
C23_QuietAtLevelZero ==
    [][(lastCall'.op = "load" /\ diagnosticLevel' = 0 /\ dataCoordinatesFieldName # NoName) =>
          ~NotFoundPrinted(lastCall', dataCoordinatesFieldName)]_vars

(***************************************************************************)
(* C24                                                                     *)
(***************************************************************************)
\* the points of the data file a field of the data region is defined on
DefinedOn(field) ==
    DataFile(files).fields[FieldIndex(DataFile(files).fields, field.name)].definedOn

\* the field whose value the claim has the map evaluated on at point p: the
\* marker coordinates field at a marker point that has it, when it is not the
\* data coordinates field; the data coordinates field elsewhere
StatedSource(p) ==
    IF /\ dataMarkerGroup # NoGroup
       /\ p \in Literal(dataMarkerGroup.name).datapoints
       /\ dataMarkerCoordinatesField # NoField
       /\ dataMarkerCoordinatesField # dataCoordinatesField
       /\ p \in DefinedOn(dataMarkerCoordinatesField)
    THEN dataMarkerCoordinatesField.name
    ELSE dataCoordinatesFieldName

\* C24: in the region generateOutput() returns, the material coordinates of
\* every retained node and datapoint are the embedding map evaluated on the
\* point's data coordinates value, or on its marker coordinates value when
\* the point is a marker point and the marker coordinates field is not the
\* data coordinates field.
C24_MapOfDataCoordinates ==
    Generated =>
        \A p \in outputDataRegion.materialDefined :
            outputDataRegion.assignedFrom[p] = StatedSource(p)

(***************************************************************************)
(* C25                                                                     *)
(***************************************************************************)
\* C25: in every state in which a data marker group with points is set and
\* the data coordinates field is defined on all of its points, the marker
\* coordinates field is the data coordinates field.
C25_MarkerCoordinatesFollowData ==
    (/\ dataMarkerGroup # NoGroup
     /\ dataCoordinatesField # NoField
     /\ Literal(dataMarkerGroup.name).datapoints # {}
     /\ Literal(dataMarkerGroup.name).datapoints \subseteq DefinedOn(dataCoordinatesField))
    => dataMarkerCoordinatesField = dataCoordinatesField

(***************************************************************************)
(* C26                                                                     *)
(***************************************************************************)
\* C26: the region a generateOutput() returns is a child of the current host
\* region.
C26_OutputIsChildOfHost ==
    Generated => (outputDataRegion.exists /\ outputDataRegion.parent = "host")

(***************************************************************************)
(* C27                                                                     *)
(***************************************************************************)
\* C27: after a load() the names of the group table are exactly the names of
\* the groups of the data file and the distinct names of the datapoints of
\* the marker group the load found; a name the table had before the load
\* that is neither is not in the table and hasDataGroup() is False for it.
C27_TableRecreatedOnLoad ==
    [][(lastCall'.op = "load" /\ DoLoad) =>
          /\ DOMAIN groupData' = (LiteralNames \cup MarkerNames)'
          /\ \A n \in DOMAIN groupData :
                (n \notin (LiteralNames \cup MarkerNames)') => ~HasDataGroup(Self, n)']_vars

\* the load() over the "fiducial" files after settings with a table of "cube"
\* and "line": the table has the two groups of the file and the marker name
C27_Witness ==
    /\ lastCall.op = "load"
    /\ files = "fiducial"
    /\ dataMarkerGroupName = "fiducial"
    /\ "cube" \notin DOMAIN groupData
    /\ DOMAIN groupData = {"fiducial", "void", "top"}

(***************************************************************************)
(* C28                                                                     *)
(***************************************************************************)
\* C28: setDataGroupEmbed(name, embed) returns True exactly when name is in
\* the group table and its embed flag is not embed; then the table changes in
\* that record's embed flag only and the output is Dirty afterwards.  When it
\* returns False the table is unchanged and the output is Dirty afterwards
\* exactly if it was Dirty before.
C28_SetDataGroupEmbedFrame ==
    [][\A groupName \in DOMAIN groupData \cup {"unknown"}, embed \in BOOLEAN, changed \in BOOLEAN :
          SetDataGroupEmbedCall(groupName, embed, changed) =>
             /\ changed <=> (groupName \in DOMAIN groupData /\ groupData[groupName].embed # embed)
             /\ changed =>
                   /\ groupData' = [groupData EXCEPT ![groupName].embed = embed]
                   /\ needGenerateOutput'
             /\ ~changed =>
                   /\ groupData' = groupData
                   /\ needGenerateOutput' = needGenerateOutput]_vars

\* setDataGroupEmbed("cube", False) has returned True on a generated output
C28_Witness ==
    /\ lastCall.op = "other"
    /\ files = "volume"
    /\ outputDataRegion.complete
    /\ needGenerateOutput
    /\ "cube" \in DOMAIN groupData
    /\ ~groupData["cube"].embed

(***************************************************************************)
(* Every operation that reads or writes the group table, in any order      *)
(***************************************************************************)
\* dataEmbedder.setHostMarkerGroup(group) returning changed
SetHostMarkerGroupCall(group, changed) ==
    /\ SetHostMarkerGroup(Self, group).changed = changed
    /\ Become(SetHostMarkerGroup(Self, group).self)
    /\ lastCall' = Call("setHostMarkerGroup", FALSE, FALSE, FALSE)
    /\ UNCHANGED files

\* arguments its assertion accepts: a group of the host region, or None
HostGroupArguments ==
    {NoGroup} \cup { [region |-> "host", name |-> n] : n \in GroupNames(hostGroups) \cap {"bottom"} }

DoSetHostMarkerGroup ==
    /\ hostRegion # "none"
    /\ \E group \in HostGroupArguments, changed \in BOOLEAN :
          SetHostMarkerGroupCall(group, changed)

\* getDataGroupNames(), hasDataGroup(), getDataGroupDimension(),
\* getDataGroupSize(), isDataGroupEmbed(), encodeSettingsJSON(): each returns
\* a value computed from the engine's fields and assigns none of them
DoReadTable ==
    /\ lastCall' = Call("query", FALSE, FALSE, FALSE)
    /\ UNCHANGED <<files, engine>>

TableNext ==
    \/ DoLoad
    \/ DoDecodeSettingsJSON
    \/ DoSetDataGroupEmbed
    \/ DoSetFittedCoordinatesField
    \/ DoSetMaterialCoordinatesField
    \/ DoSetDataCoordinatesField
    \/ DoSetDataMarkerGroup
    \/ DoSetHostMarkerGroup
    \/ DoReadTable
    \/ DoGenerateOutput

TableSpec == Init /\ [][TableNext]_vars

(***************************************************************************)
(* C29                                                                     *)
(***************************************************************************)
\* C29: a step that changes the group table is a load(), a
\* decodeSettingsJSON() or a setDataGroupEmbed(); the coordinate field
\* setters, setDataMarkerGroup(), setHostMarkerGroup(), the group queries,
\* encodeSettingsJSON() and generateOutput() leave the table as it is.
C29_TableWrittenByThreeOperations ==
    [][(groupData' # groupData) => (DoLoad \/ DoDecodeSettingsJSON \/ DoSetDataGroupEmbed)]_vars

\* the marker group was unset after a load() of the "volume" files, a host
\* marker group was set, and the table still has the record of marker name "ICN"
C29_Witness ==
    /\ files = "volume"
    /\ hostRegion = "host"
    /\ dataMarkerGroup = NoGroup
    /\ hostMarkerGroup # NoGroup
    /\ lastCall.op # "load"
    /\ "ICN" \in DOMAIN groupData

(***************************************************************************)
(* C30                                                                     *)
(***************************************************************************)
\* C30: the output goes from Dirty to Clean only in a generateOutput() that
\* ran the assembly to its end; a generateOutput() that raises leaves the
\* output Dirty; and a generateOutput() called next after one that raised
\* does not return a cached region: it runs the assembly again or raises
\* again, and a region it returns is complete.
C30_CleanOnlyOnCompletion ==
    [][/\ (needGenerateOutput /\ ~needGenerateOutput') =>
              /\ lastCall'.op = "generateOutput"
              /\ lastCall'.assembled /\ ~lastCall'.raised
              /\ outputDataRegion'.complete
       /\ (lastCall'.op = "generateOutput" /\ lastCall'.raised) => needGenerateOutput'
       /\ (lastCall.op = "generateOutput" /\ lastCall.raised /\ lastCall'.op = "generateOutput") =>
              /\ lastCall'.assembled \/ lastCall'.raised
              /\ ~lastCall'.raised => outputDataRegion'.complete]_vars

\* a generateOutput() that raised after it had created and filtered the
\* output region: the region is there, incomplete, and the output is Dirty
C30_Witness ==
    /\ lastCall.op = "generateOutput"
    /\ lastCall.assembled
    /\ lastCall.raised
    /\ outputDataRegion.exists
    /\ ~outputDataRegion.complete
    /\ needGenerateOutput

====
